---- MODULE Spec2Model ----
(***************************************************************************)
(* TrueLink API: the resolution orchestrator (utils.resolve_single), the   *)
(* batch endpoint (endpoints/batch.py and app.py resolve_batch) and the    *)
(* Terabox multi-source endpoint (endpoints/terabox.py).                   *)
(*                                                                         *)
(* Python strings are sequences of one-character strings, so that strip,   *)
(* lower, startswith, substring search and urlparse are computed.          *)
(***************************************************************************)
EXTENDS Integers, Sequences, FiniteSets, TLC

VARIABLES
    truelinkAvailable,  \* config.TRUELINK_AVAILABLE, fixed at import time
    concurrentLimit,    \* Config.CONCURRENT_LIMIT, read from the environment at startup
    \* ---- one resolve_single call (utils.py) ----
    rsPc,               \* "idle" | "awaiting" (suspended in await resolver.resolve) | "returned"
    rsUrl,              \* the url argument
    rsArgs,             \* [timeout, retries] as passed by the caller
    resolver,           \* the resolver object constructed by the call, or NoResolver
    isSupportedResult,  \* what resolver.is_supported did: "none" | "true" | "false" | "raised"
    resolveCalls,       \* how many times resolver.resolve was invoked by this call
    startTime,          \* start_time = time.time()
    now,                \* the wall clock, in seconds
    rsResponse,         \* the ResolveResponse returned, or NoResponse
    \* ---- one resolve_batch request ----
    handler,            \* which resolve_batch serves the route: "batch" (endpoints/batch.py) | "app" (app.py)
    bPc,                \* "idle" | "gathering" | "returned" | "failed" | "rejected"
    urls,               \* urls = [str(url) for url in payload.urls]
    taskPc,             \* per task: "queued" (waiting for the semaphore) | "awaiting" | "done"
    semValue,           \* asyncio.Semaphore._value
    slots,              \* asyncio.gather's positional result slots
    own,                \* per task: what its own resolve_single call returned (history)
    outOfOrder,         \* some task completed while an earlier one had not (history)
    bHttp,              \* HTTP status of the batch envelope, 0 while none
    bResponse,          \* the BatchResponse returned, or NoBatchResponse
    bPayload,           \* the urls of the request body as received (history)
    \* ---- one GET /terabox request (endpoints/terabox.py) ----
    tbNdus,             \* the ndus query parameter of the request
    tbPc,               \* "idle" | "inflight" (both API calls gathered) | "returned" | "raised" | "rejected"
    tbUp1,              \* what API 1 sent back, or NoUpstream while it has not answered (history)
    tbUp2,              \* what API 2 sent back, or NoUpstream
    tbApi1,             \* api1_result (what try_api_1 returned), or NotYet
    tbApi2,             \* api2_result (what try_api_2 returned), or NotYet
    tbFirst,            \* which API answered first: 0 (none yet), 1 or 2 (history)
    tbHttp,             \* HTTP status of the answer, 0 while none
    tbResponse,         \* the TeraboxResponse returned, or NoTeraboxResponse
    \* ---- one extract_direct_links call (utils.py) ----
    lkPc,               \* "idle" | "returned"
    lkPayload,          \* the resolved_data argument
    lkDiscovered,       \* the urls handed to links.add, in the order of the walk (history)
    lkResult,           \* the list returned
    \* ---- one request to a bypass endpoint (endpoints/linkvertise.py, endpoints/dllink.py) ----
    teraCookie,         \* whether TERA_COOKIE is configured (linkvertise.py 36-42)
    uvPc,               \* "idle" | "scraping" (the scraper is talking to its upstream) | "returned" | "raised"
    uvRoute,            \* the endpoint asked: "universal", a /{service} of linkvertise.py, or a dllink.py endpoint
    uvUrl,              \* the url query parameter
    uvHandler,          \* the scraper invoked, "none" when there is none
    uvUpstream,         \* how the upstream behaved during the scraper's call (history)
    uvCredRequests,     \* upstream requests sent that carried the scraper's credential
    uvHttp,             \* HTTP status of the answer, 0 while none
    uvResponse,         \* the body answered: [success, text]
    \* ---- one GET /download-stream (endpoints/download_stream.py) ----
    dsPc,               \* "idle" | "resolving" | "awaiting_get" | "returned" (StreamingResponse handed over)
                        \* | "streaming" | "done" | "raised" | "cancelled"
    dsSession,          \* the aiohttp ClientSession: "none" | "open" | "closed"
    dsUpstream,         \* the upstream response: "none" | "open" | "closed"
    dsOffered,          \* the headers the upstream sent
    dsHeaders,          \* the headers copied into the StreamingResponse
    dsChunks,           \* chunks yielded so far
    dsHttp,             \* HTTP status answered, 0 while none
    \* ---- one GET on /resolve, /direct or /redirect ----
    epPc,               \* "idle" | "resolving" (inside resolve_single) | "answered"
    epRoute,            \* "resolve" | "direct" | "redirect"
    epQuery,            \* the query parameters: [url, timeout, retries]
    epHttp,             \* HTTP status answered, 0 while none
    \* ---- GET /supported-domains (endpoints/supported_domains.py) ----
    sdCache,            \* the module-level dict _domains_cache: [data, timestamp]
    sdNow,              \* time.time(), in seconds since startup
    sdHttp,             \* HTTP status of the last answer, 0 while none
    sdResponse,         \* the body of the last answer
    sdFresh,            \* what a process just started would have answered to the last request (history)
    \* ---- one walk of extract_direct_links over an object graph ----
    wkPc,               \* "idle", "walking", "returned"
    wkHeap,             \* the objects of the payload; an object's children are indices
    wkStack,            \* the walk_data calls still to be made, next first
    wkDeepest,          \* the greatest depth at which an object was inspected
    wkFound,            \* the arguments of links.add, in the order of the calls
    \* ---- one GET /terabox request served by app.terabox_endpoint ----
    taPc,               \* "idle", "rejected", "looping", "returned"
    taNext,             \* the index of the API the loop tries next
    taStarted,          \* the APIs whose request was sent
    taInflight,         \* the APIs whose request was sent and has not ended
    taUps,              \* what each API tried so far answered
    taHttp,             \* HTTP status of the answer, 0 before
    taResponse,         \* the TeraboxResponse returned, or NoTeraboxResponse
    \* ---- one call of linkvertise.uptobox ----
    ubPc,               \* "idle", "requested", "retrying", "returned"
    ubFirst,            \* the first answer of the uptobox api, NoAnswer before
    ubSlept,            \* seconds spent in sleep() so far
    ubRequests,         \* requests sent to the uptobox api
    ubResult,           \* the string returned, "" before
    \* ---- one GET /sharerpw request, sharerpw_scraper followed line by line ----
    spPc,               \* "idle", "getting", "posting", "ended", "answered"
    spCreds,            \* the credentials on the Config class: "absent", "empty", "set"
    spForce,            \* the force argument of the running sharerpw_scraper call
    spPage,             \* the page fetched: has it the btndirect button and the table rows read
    spDepth,            \* sharerpw_scraper calls entered
    spOutcome,          \* how sharerpw_scraper ended, NoOutcome before
    spHttp,             \* HTTP status of the answer, 0 before
    spSuccess           \* the success member of the answer

singleVars == <<rsPc, rsUrl, rsArgs, resolver, isSupportedResult, resolveCalls,
                startTime, now, rsResponse>>
batchVars == <<handler, bPc, urls, taskPc, semValue, slots, own, outOfOrder, bHttp, bResponse, bPayload>>
teraboxVars == <<tbNdus, tbPc, tbUp1, tbUp2, tbApi1, tbApi2, tbFirst, tbHttp, tbResponse>>
linksVars == <<lkPc, lkPayload, lkDiscovered, lkResult>>
bypassVars == <<uvPc, uvRoute, uvUrl, uvHandler, uvUpstream, uvCredRequests, uvHttp, uvResponse>>
configVars == <<truelinkAvailable, concurrentLimit, teraCookie>>
streamVars == <<dsPc, dsSession, dsUpstream, dsOffered, dsHeaders, dsChunks, dsHttp>>
endpointVars == <<epPc, epRoute, epQuery, epHttp>>
domainsVars == <<sdCache, sdNow, sdHttp, sdResponse, sdFresh>>
walkVars == <<wkPc, wkHeap, wkStack, wkDeepest, wkFound>>
appTeraboxVars == <<taPc, taNext, taStarted, taInflight, taUps, taHttp, taResponse>>
uptoboxVars == <<ubPc, ubFirst, ubSlept, ubRequests, ubResult>>
sharerpwVars == <<spPc, spCreds, spForce, spPage, spDepth, spOutcome, spHttp, spSuccess>>
vars == <<configVars, singleVars, batchVars, teraboxVars, linksVars, bypassVars, streamVars, endpointVars, domainsVars, walkVars, appTeraboxVars, uptoboxVars, sharerpwVars>>
\* what an action of one endpoint leaves alone
notSingle == <<configVars, batchVars, teraboxVars, linksVars, bypassVars, streamVars, endpointVars, domainsVars, walkVars, appTeraboxVars, uptoboxVars, sharerpwVars>>
notBatch == <<configVars, singleVars, teraboxVars, linksVars, bypassVars, streamVars, endpointVars, domainsVars, walkVars, appTeraboxVars, uptoboxVars, sharerpwVars>>
notTerabox == <<configVars, singleVars, batchVars, linksVars, bypassVars, streamVars, endpointVars, domainsVars, walkVars, appTeraboxVars, uptoboxVars, sharerpwVars>>
notLinks == <<configVars, singleVars, batchVars, teraboxVars, bypassVars, streamVars, endpointVars, domainsVars, walkVars, appTeraboxVars, uptoboxVars, sharerpwVars>>
notBypass == <<configVars, singleVars, batchVars, teraboxVars, linksVars, streamVars, endpointVars, domainsVars, walkVars, appTeraboxVars, uptoboxVars, sharerpwVars>>
notEndpoint == <<configVars, batchVars, teraboxVars, linksVars, bypassVars, streamVars, domainsVars, walkVars, appTeraboxVars, uptoboxVars, sharerpwVars>>
notStream == <<configVars, singleVars, batchVars, teraboxVars, linksVars, bypassVars, endpointVars, domainsVars, walkVars, appTeraboxVars, uptoboxVars, sharerpwVars>>
notDomains == <<configVars, singleVars, batchVars, teraboxVars, linksVars, bypassVars, streamVars, endpointVars, walkVars, appTeraboxVars, uptoboxVars, sharerpwVars>>
notWalk == <<configVars, singleVars, batchVars, teraboxVars, linksVars, bypassVars, streamVars, endpointVars, domainsVars, appTeraboxVars, uptoboxVars, sharerpwVars>>
notAppTerabox == <<configVars, singleVars, batchVars, teraboxVars, linksVars, bypassVars, streamVars, endpointVars, domainsVars, walkVars, uptoboxVars, sharerpwVars>>
notUptobox == <<configVars, singleVars, batchVars, teraboxVars, linksVars, bypassVars, streamVars, endpointVars, domainsVars, walkVars, appTeraboxVars, sharerpwVars>>
notSharerpw == <<configVars, singleVars, batchVars, teraboxVars, linksVars, bypassVars, streamVars, endpointVars, domainsVars, walkVars, appTeraboxVars, uptoboxVars>>

(***************************************************************************)
(* Configuration                                                           *)
(***************************************************************************)
MAX_TIMEOUT == 120
DEFAULT_TIMEOUT == 20
MAX_RETRIES == 10
MIN_TIMEOUT == 1
MIN_RETRIES == 0
MAX_URL_LENGTH == 2048

(***************************************************************************)
(* Python str operations                                                   *)
(***************************************************************************)
LowerLetters == <<"a","b","c","d","e","f","g","h","i","j","k","l","m","n","o","p","q","r","s","t","u","v","w","x","y","z">>
UpperLetters == <<"A","B","C","D","E","F","G","H","I","J","K","L","M","N","O","P","Q","R","S","T","U","V","W","X","Y","Z">>
Digits == <<"0","1","2","3","4","5","6","7","8","9">>
Whitespace == {" "}

Range(s) == {s[i] : i \in DOMAIN s}

LowerChar(c) ==
    IF \E k \in DOMAIN UpperLetters : UpperLetters[k] = c
    THEN LowerLetters[CHOOSE k \in DOMAIN UpperLetters : UpperLetters[k] = c]
    ELSE c

Lower(s) == [i \in 1..Len(s) |-> LowerChar(s[i])]

StartsWith(s, p) == Len(s) >= Len(p) /\ SubSeq(s, 1, Len(p)) = p

Contains(s, p) == \E i \in 0..(Len(s) - Len(p)) : SubSeq(s, i + 1, i + Len(p)) = p

LastIndex(s, chars) ==
    LET hits == {i \in 1..Len(s) : s[i] \in chars}
    IN IF hits = {} THEN 0 ELSE CHOOSE i \in hits : \A j \in hits : i >= j

FirstIndex(s, from, chars) ==
    LET hits == {i \in from..Len(s) : s[i] \in chars}
    IN IF hits = {} THEN 0 ELSE CHOOSE i \in hits : \A j \in hits : i <= j

\* str.strip(): nothing is left of an all-blank string
StripTo(s, first, last) == IF first = 0 THEN <<>> ELSE SubSeq(s, first, last)
Strip(s) == StripTo(s, FirstIndex(s, 1, Range(s) \ Whitespace), LastIndex(s, Range(s) \ Whitespace))

RECURSIVE IntToStr(_)
IntToStr(n) == IF n < 10 THEN <<Digits[n + 1]>> ELSE IntToStr(n \div 10) \o <<Digits[(n % 10) + 1]>>

(***************************************************************************)
(* urllib.parse.urlparse, as far as is_valid_url reads it: scheme, netloc, *)
(* and the ValueError on unbalanced brackets in the netloc.                *)
(***************************************************************************)
SchemeChars == Range(LowerLetters) \cup Range(UpperLetters) \cup Range(Digits) \cup {"+", "-", "."}
NetlocDelims == {"/", "?", "#"}

LStripFrom(s, first) == IF first = 0 THEN <<>> ELSE SubSeq(s, first, Len(s))
LStrip(s) == LStripFrom(s, FirstIndex(s, 1, Range(s) \ Whitespace))

\* the netloc: what follows "//" up to the first of / ? #
SplitNetloc(scheme, rest, delim) ==
    IF ~StartsWith(rest, <<"/", "/">>) THEN [scheme |-> scheme, netloc |-> <<>>]
    ELSE IF delim = 0 THEN [scheme |-> scheme, netloc |-> SubSeq(rest, 3, Len(rest))]
    ELSE [scheme |-> scheme, netloc |-> SubSeq(rest, 3, delim - 1)]

\* the scheme: what precedes the first ":", when it starts with a letter and
\* holds only scheme characters; it is lower-cased
SplitScheme(url, colon) ==
    IF /\ colon > 1
       /\ url[1] \in Range(LowerLetters) \cup Range(UpperLetters)
       /\ \A i \in 1..(colon - 1) : url[i] \in SchemeChars
    THEN SplitNetloc(Lower(SubSeq(url, 1, colon - 1)), SubSeq(url, colon + 1, Len(url)),
                     FirstIndex(SubSeq(url, colon + 1, Len(url)), 3, NetlocDelims))
    ELSE SplitNetloc(<<>>, url, FirstIndex(url, 3, NetlocDelims))

\* urlsplit raises ValueError("Invalid IPv6 URL") on unbalanced brackets
BracketCheck(parts) ==
    [scheme |-> parts.scheme, netloc |-> parts.netloc,
     raised |-> ("[" \in Range(parts.netloc)) # ("]" \in Range(parts.netloc))]

\* urlsplit first drops leading spaces and control characters
UrlParseStripped(url) == BracketCheck(SplitScheme(url, FirstIndex(url, 1, {":"})))
urlparse(raw) == UrlParseStripped(LStrip(raw))

StrHttp == <<"h","t","t","p">>
StrHttps == <<"h","t","t","p","s">>
malicious_patterns == {
    <<"j","a","v","a","s","c","r","i","p","t",":">>,
    <<"d","a","t","a",":">>,
    <<"v","b","s","c","r","i","p","t",":">>,
    <<"f","i","l","e",":">>,
    <<"f","t","p",":">> }

\* return all([result.scheme, result.netloc]) and result.scheme in ('http', 'https')
SchemeAndNetloc(result) ==
    IF result.raised THEN FALSE
    ELSE /\ result.scheme # <<>>
         /\ result.netloc # <<>>
         /\ result.scheme \in {StrHttp, StrHttps}

\* all([result.scheme]) in place of all([result.scheme, result.netloc])
SchemeOnly(result) ==
    IF result.raised THEN FALSE
    ELSE /\ result.scheme # <<>>
         /\ result.scheme \in {StrHttp, StrHttps}

Screened(u, lowered) ==
    IF Len(u) > MAX_URL_LENGTH THEN FALSE
    ELSE ~ \E pattern \in malicious_patterns : Contains(lowered, pattern)

StrippedIsValid(u) == Screened(u, Lower(u)) /\ SchemeAndNetloc(urlparse(u))
StrippedHasScheme(u) == Screened(u, Lower(u)) /\ SchemeOnly(urlparse(u))

is_valid_url_scheme_only(url) == StrippedHasScheme(Strip(url))

\* utils.is_valid_url
is_valid_url(url) == StrippedIsValid(Strip(url))

\* app.is_valid_url (no strip, no pattern screen)
app_is_valid_url(url) == SchemeAndNetloc(urlparse(url))

(***************************************************************************)
(* Clamps                                                                  *)
(***************************************************************************)
Max(a, b) == IF a >= b THEN a ELSE b
Min(a, b) == IF a <= b THEN a ELSE b

validate_timeout_unclamped_below(timeout) == Min(timeout, MAX_TIMEOUT)
validate_timeout(timeout) == Max(MIN_TIMEOUT, Min(timeout, MAX_TIMEOUT))

validate_retries(retries) == Max(MIN_RETRIES, Min(retries, MAX_RETRIES))

(***************************************************************************)
(* models.ResolveResponse and the values a resolver hands back             *)
(***************************************************************************)
None == "None"
NoMessage == <<>>      \* message=None
NoResolver == [kind |-> "none", timeout |-> 0, max_retries |-> 0]
NoResponse == [url |-> <<>>, status |-> "none", type |-> None, data |-> None,
               message |-> NoMessage, processing_time |-> 0]

MsgUnsupported == <<"U","R","L"," ","d","o","m","a","i","n"," ","i","s"," ","n","o","t"," ","s","u","p","p","o","r","t","e","d">>
MsgTimedOutPrefix == <<"R","e","q","u","e","s","t"," ","t","i","m","e","d"," ","o","u","t"," ","a","f","t","e","r"," ">>
MsgBoom == <<"b","o","o","m">>
MsgRecursion == <<"m","a","x","i","m","u","m"," ","r","e","c","u","r","s","i","o","n"," ","d","e","p","t","h">>
MsgValidation == <<"v","a","l","u","e"," ","i","s"," ","n","o","t"," ","a"," ","v","a","l","i","d"," ","d","i","c","t">>

ResolveResponse(url, status, type, data, message, processing_time) ==
    [url |-> url, status |-> status, type |-> type, data |-> data,
     message |-> message, processing_time |-> processing_time]

\* ResolveResponse.data is Optional[Dict[str, Any]]: anything else is a ValidationError
DataFieldAccepts(data) == data \in {None, "dict"}

\* What resolver.resolve can hand back: type(result).__name__ and the shape
\* to_serializable sees.
ResultDict == [type |-> "dict", shape |-> "mapping"]
ResultList == [type |-> "list", shape |-> "sequence"]
ResultCyclic == [type |-> "LinkResult", shape |-> "cyclic"]
ResultCoroutine == [type |-> "coroutine", shape |-> "opaque"]

\* utils.to_serializable: a mapping stays a dict, a sequence becomes a list, an
\* object with neither dict() nor __dict__ becomes str(obj); a self-referential
\* __dict__ recurses until RecursionError, which only the json branch catches.
to_serializable(obj) ==
    CASE obj.shape = "mapping" -> [raised |-> FALSE, value |-> "dict"]
      [] obj.shape = "sequence" -> [raised |-> FALSE, value |-> "list"]
      [] obj.shape = "cyclic" -> [raised |-> TRUE, value |-> None]
      [] OTHER -> [raised |-> FALSE, value |-> "str"]

(***************************************************************************)
(* utils.resolve_single                                                    *)
(***************************************************************************)
ResolverClass(truelink) == IF truelink THEN "TrueLinkResolver" ELSE "FallbackResolver"

\* What the resolver library does in the synchronous part of a call. TrueLink is
\* an external library: its constructor and is_supported may answer anything.
\* FallbackResolver's constructor succeeds and its is_supported is is_valid_url.
SyncEnvs(truelink) ==
    IF truelink
    THEN {[construct |-> "raises", supported |-> "none"]}
         \cup {[construct |-> "ok", supported |-> s] : s \in {"true", "false", "raises"}}
    ELSE {[construct |-> "ok", supported |-> "code"]}

\* How the awaited resolver.resolve ends, when it ends. Without TrueLink the call
\* goes through run_in_executor(None, resolver.resolve, ...), and resolve being an
\* async def, the executor returns its un-awaited coroutine object.
ResolveOutcomes(truelink) ==
    IF truelink
    THEN {[kind |-> "return", result |-> r] : r \in {ResultDict, ResultList, ResultCyclic}}
         \cup {[kind |-> "raise", exc |-> e] : e \in {"TimeoutError", "Exception"}}
    ELSE {[kind |-> "return", result |-> ResultCoroutine]}

\* resolver.is_supported(url). `module` says whose FallbackResolver it is:
\* utils.py's asks utils.is_valid_url, app.py's asks app.is_valid_url.
is_supported(module, class, url, env) ==
    IF class = "FallbackResolver"
    THEN (IF (IF module = "app" THEN app_is_valid_url(url) ELSE is_valid_url(url))
          THEN "true" ELSE "false")
    ELSE env.supported

Returned(resp) == [kind |-> "return", resp |-> resp]
Raised(msg) == [kind |-> "raise", msg |-> msg]
Pending == [kind |-> "pending"]

\* except asyncio.TimeoutError / except Exception (utils.py 259-276)
timeout_response(url, timeout, elapsed) ==
    ResolveResponse(url, "timeout", None, None,
                    MsgTimedOutPrefix \o IntToStr(timeout) \o <<"s">>, elapsed)
error_response(url, msg, elapsed) ==
    ResolveResponse(url, "error", None, None, msg, elapsed)

\* The unsupported branch (utils.py 230-237)
unsupported_skipped(url, supported, elapsed) == Pending
unsupported_branch(url, supported, elapsed) ==
    IF supported = "false"
    THEN Returned(ResolveResponse(url, "unsupported", None, None, MsgUnsupported, elapsed))
    ELSE Pending

\* resolve_single up to its first suspension: clamp, construct the resolver, ask
\* is_supported. `out` is the call's result when it ends here, Pending when it
\* goes on to await resolver.resolve.
resolve_single_sync(module, url, timeout, retries, truelink, env, elapsed) ==
    LET t == validate_timeout(timeout)
        r == validate_retries(retries)
        class == ResolverClass(truelink)
        built == [kind |-> class, timeout |-> t, max_retries |-> r]
        supported == is_supported(module, class, url, env)
    IN IF env.construct = "raises"
       THEN [resolver |-> NoResolver, supported |-> "none",
             out |-> Returned(error_response(url, MsgBoom, elapsed))]
       ELSE IF supported = "raises"
       THEN [resolver |-> built, supported |-> "raised",
             out |-> Returned(error_response(url, MsgBoom, elapsed))]
       ELSE [resolver |-> built, supported |-> supported,
             out |-> unsupported_branch(url, supported, elapsed)]

\* The success return (utils.py 247-257): building the ResolveResponse is inside
\* the try, so a to_serializable error or a ValidationError lands in except Exception.
success_uncaught(url, result, elapsed) ==
    LET data == to_serializable(result)
    IN IF data.raised THEN Raised(MsgRecursion)
       ELSE IF ~DataFieldAccepts(data.value) THEN Raised(MsgValidation)
       ELSE Returned(ResolveResponse(url, "success", result.type, data.value, NoMessage, elapsed))
success_branch(url, result, elapsed) ==
    LET data == to_serializable(result)
    IN IF data.raised THEN Returned(error_response(url, MsgRecursion, elapsed))
       ELSE IF ~DataFieldAccepts(data.value) THEN Returned(error_response(url, MsgValidation, elapsed))
       ELSE Returned(ResolveResponse(url, "success", result.type, data.value, NoMessage, elapsed))

\* resolve_single from the moment the awaited resolver.resolve ends
resolve_single_resume(url, timeout, outcome, elapsed) ==
    IF outcome.kind = "return" THEN success_branch(url, outcome.result, elapsed)
    ELSE IF outcome.exc = "TimeoutError" THEN Returned(timeout_response(url, timeout, elapsed))
    ELSE Returned(error_response(url, MsgBoom, elapsed))

(***************************************************************************)
(* Inputs and bounds                                                       *)
(***************************************************************************)
MaxElapsed == 3          \* how far the clock runs while a call is suspended
MaxUrls == 4             \* longest accepted batch explored
MaxConcurrentLimit == 2  \* largest CONCURRENT_LIMIT explored

UrlNotARealScheme == <<"h","t","t","p","s",":","/","/","n","o","t","-","a","-","r","e","a","l","-","s","c","h","e","m","e">>
UrlNoScheme == <<"n","o","t","-","a","-","u","r","l">>
UrlNoHost == <<"h","t","t","p","s",":","/","/","/","f">>
UrlFtp == <<"f","t","p",":","/","/","h",".","i","o","/","f">>
UrlDataInPath == <<"h","t","t","p","s",":","/","/","h",".","i","o","/","D","a","t","a",":","1">>
UrlPadded == <<" ","h","t","t","p",":","/","/","a",".","i","o","/","f"," ">>
UrlUpper == <<"H","T","T","P","S",":","/","/","B",".","i","o">>
UrlA == <<"h","t","t","p",":","/","/","a",".","i","o","/","f">>
UrlB == <<"h","t","t","p","s",":","/","/","b",".","i","o","/","g">>
UrlC == <<"h","t","t","p","s",":","/","/","c",".","i","o">>

SingleUrls == {UrlNotARealScheme, UrlNoScheme, UrlNoHost, UrlFtp, UrlDataInPath,
               UrlPadded, UrlUpper, UrlA}
Timeouts == {-5, 0, 1, 2, 20, 120, 121, 99999}
RetriesArgs == {-1, 0, 3, 10, 11}

(***************************************************************************)
(* State after import: nothing in flight                                   *)
(***************************************************************************)
\* JSON values are tagged records (see the Terabox section)
JNull == [t |-> "null"]
JStr(chars) == [t |-> "str", s |-> chars]
JInt(n) == [t |-> "int", n |-> n]
JBool(b) == [t |-> "bool", b |-> b]
JObj(fields) == [t |-> "object", f |-> fields]

NoUpstream == [kind |-> "none"]
NotYet == [pending |-> TRUE]
NoTeraboxResponse == [status |-> "none"]
NoBatchResponse == [count |-> 0, results |-> <<>>, success_count |-> 0, error_count |-> 0]

SingleIdle ==
    /\ rsPc = "idle"
    /\ rsUrl = <<>>
    /\ rsArgs = [timeout |-> DEFAULT_TIMEOUT, retries |-> 3]
    /\ resolver = NoResolver
    /\ isSupportedResult = "none"
    /\ resolveCalls = 0
    /\ startTime = 0
    /\ now = 0
    /\ rsResponse = NoResponse

BatchIdle ==
    /\ bPc = "idle"
    /\ urls = <<>>
    /\ taskPc = <<>>
    /\ semValue = 0
    /\ slots = <<>>
    /\ own = <<>>
    /\ outOfOrder = FALSE
    /\ bHttp = 0
    /\ bResponse = NoBatchResponse
    /\ bPayload = <<>>

NoBypassResponse == [success |-> FALSE, text |-> <<>>]
BypassIdle ==
    /\ uvPc = "idle"
    /\ uvRoute = "none"
    /\ uvUrl = <<>>
    /\ uvHandler = "none"
    /\ uvUpstream = "none"
    /\ uvCredRequests = 0
    /\ uvHttp = 0
    /\ uvResponse = NoBypassResponse

NoDomains == [count |-> 0, domains |-> <<>>, last_updated |-> 0, truelink_available |-> FALSE]
\* data is None until the first answer is stored
NoData == [t |-> "None"]
DictData(result) == [t |-> "dict", v |-> result]
StartupCache == [data |-> NoData, timestamp |-> 0]
DomainsIdle ==
    /\ sdCache = StartupCache
    /\ sdNow = 0
    /\ sdHttp = 0
    /\ sdResponse = NoDomains
    /\ sdFresh = NoDomains

WalkIdle == wkPc = "idle" /\ wkHeap = <<>> /\ wkStack = <<>> /\ wkDeepest = 0 /\ wkFound = <<>>

AppTeraboxIdle ==
    /\ taPc = "idle" /\ taNext = 0 /\ taStarted = {} /\ taInflight = {} /\ taUps = <<>>
    /\ taHttp = 0 /\ taResponse = [status |-> "none"]

NoAnswer == [kind |-> "none"]
UptoboxIdle ==
    ubPc = "idle" /\ ubFirst = NoAnswer /\ ubSlept = 0 /\ ubRequests = 0 /\ ubResult = ""

NoOutcome == [kind |-> "pending", text |-> <<>>]
NoPage == [button |-> FALSE, rows |-> FALSE]
SharerpwIdle ==
    /\ spPc = "idle" /\ spCreds = "absent" /\ spForce = FALSE /\ spPage = NoPage /\ spDepth = 0
    /\ spOutcome = NoOutcome /\ spHttp = 0 /\ spSuccess = FALSE

NoQuery == [url |-> <<>>, timeout |-> 0, retries |-> 0]
EndpointIdle ==
    /\ epPc = "idle"
    /\ epRoute = "none"
    /\ epQuery = NoQuery
    /\ epHttp = 0

StreamIdle ==
    /\ dsPc = "idle"
    /\ dsSession = "none"
    /\ dsUpstream = "none"
    /\ dsOffered = {}
    /\ dsHeaders = {}
    /\ dsChunks = 0
    /\ dsHttp = 0

LinksIdle ==
    /\ lkPc = "idle"
    /\ lkPayload = JNull
    /\ lkDiscovered = <<>>
    /\ lkResult = <<>>

TeraboxIdle ==
    /\ tbNdus = <<>>
    /\ tbPc = "idle"
    /\ tbUp1 = NoUpstream
    /\ tbUp2 = NoUpstream
    /\ tbApi1 = NotYet
    /\ tbApi2 = NotYet
    /\ tbFirst = 0
    /\ tbHttp = 0
    /\ tbResponse = NoTeraboxResponse

(***************************************************************************)
(* One resolve_single call                                                 *)
(***************************************************************************)
\* The caller invokes resolve_single; it runs to its return or to the await.
CallResolveSingle ==
    /\ rsPc = "idle"
    /\ \E url \in SingleUrls, timeout \in Timeouts, retries \in RetriesArgs,
          env \in SyncEnvs(truelinkAvailable) :
          LET sync == resolve_single_sync("utils", url, timeout, retries, truelinkAvailable, env, 0)
          IN /\ rsUrl' = url
             /\ rsArgs' = [timeout |-> timeout, retries |-> retries]
             /\ startTime' = now
             /\ resolver' = sync.resolver
             /\ isSupportedResult' = sync.supported
             /\ IF sync.out.kind = "pending"
                THEN /\ rsPc' = "awaiting"
                     /\ resolveCalls' = resolveCalls + 1
                     /\ rsResponse' = NoResponse
                ELSE /\ rsPc' = IF sync.out.kind = "return" THEN "returned" ELSE "raised"
                     /\ resolveCalls' = resolveCalls
                     /\ rsResponse' = IF sync.out.kind = "return" THEN sync.out.resp ELSE NoResponse
    /\ UNCHANGED <<now, notSingle>>

\* A second passes while the call is suspended in await resolver.resolve.
Tick ==
    /\ rsPc = "awaiting"
    /\ now - startTime < MaxElapsed
    /\ now' = now + 1
    /\ UNCHANGED <<rsPc, rsUrl, rsArgs, resolver, isSupportedResult, resolveCalls,
                   startTime, rsResponse, notSingle>>

\* a failed resolver.resolve invoked again while retries are left
reinvokes_while_retries_left(outcome, calls, retries) == outcome.kind = "raise" /\ calls <= retries

\* whether resolve_single invokes resolver.resolve again after an outcome: the
\* awaited call (utils.py 241, 245) stands in no loop, and both except clauses return
reinvokes(outcome, calls, retries) == FALSE

\* The awaited resolver.resolve ends and resolve_single runs to its return.
ResolveEnds ==
    /\ rsPc = "awaiting"
    /\ \E outcome \in ResolveOutcomes(truelinkAvailable) :
          IF reinvokes(outcome, resolveCalls, resolver.max_retries)
          THEN /\ resolveCalls' = resolveCalls + 1
               /\ UNCHANGED <<rsPc, rsResponse>>
          ELSE LET out == resolve_single_resume(rsUrl, resolver.timeout, outcome, now - startTime)
               IN /\ rsPc' = IF out.kind = "return" THEN "returned" ELSE "raised"
                  /\ rsResponse' = IF out.kind = "return" THEN out.resp ELSE NoResponse
                  /\ resolveCalls' = resolveCalls
    /\ UNCHANGED <<rsUrl, rsArgs, resolver, isSupportedResult, startTime, now, notSingle>>

InitSingle ==
    /\ truelinkAvailable \in BOOLEAN
    /\ concurrentLimit = 1
    /\ handler = "batch"
    /\ SingleIdle
    /\ BatchIdle
    /\ TeraboxIdle
    /\ LinksIdle
    /\ BypassIdle
    /\ StreamIdle
    /\ EndpointIdle
    /\ SharerpwIdle
    /\ UptoboxIdle
    /\ AppTeraboxIdle
    /\ WalkIdle
    /\ DomainsIdle
    /\ teraCookie = FALSE

NextSingle == CallResolveSingle \/ Tick \/ ResolveEnds

SpecSingle == InitSingle /\ [][NextSingle]_vars

(***************************************************************************)
(* Claims about resolve_single (checked under SpecSingle)                  *)
(***************************************************************************)
StrInvalid == <<"i","n","v","a","l","i","d">>
Statuses == {"success", "unsupported", "timeout", "error"}

\* The url has no scheme or no host, as urlparse sees it
MissingPart(r) == r.raised \/ r.scheme = <<>> \/ r.netloc = <<>>
NoSchemeOrHost(url) == MissingPart(urlparse(Strip(url)))

\* C5: resolve_single returns "unsupported" exactly when is_supported returned
\* false; then resolver.resolve was never called, and no call is left suspended.
C5_UnsupportedIffNotSupported ==
    /\ rsPc = "returned" =>
          ((rsResponse.status = "unsupported") <=> (isSupportedResult = "false"))
    /\ isSupportedResult = "false" => (resolveCalls = 0 /\ rsPc = "returned")
    /\ isSupportedResult = "true" => resolveCalls = 1

C5_Witness ==
    /\ rsPc = "returned"
    /\ isSupportedResult = "false"
    /\ rsResponse.status = "unsupported"
    /\ resolveCalls = 0

\* C6 (as claimed): a call suspended in resolver.resolve has not been waiting
\* longer than the clamped timeout; past it, resolve_single has returned.
C6_ReturnsByClampedTimeout ==
    rsPc = "awaiting" => now - startTime <= resolver.timeout

\* C7: resolve_single never raises, whatever raised inside it, and the status it
\* returns is one of success, unsupported, timeout, error.
C7_NeverRaises ==
    /\ rsPc # "raised"
    /\ rsPc = "returned" => rsResponse.status \in Statuses
    /\ rsPc = "returned" /\ isSupportedResult \in {"none", "raised"} =>
          rsResponse.status = "error"

C7_Witness ==
    /\ rsPc = "returned"
    /\ rsResponse.status = "error"
    /\ rsResponse.message \in {MsgRecursion, MsgValidation}

\* C8 (as claimed): a url with no scheme or no host, and also
\* "https://not-a-real-scheme", is answered "unsupported" with a message that
\* mentions an invalid URL, before resolver.resolve is called.
C8_InvalidUrlRejected ==
    (rsPc # "idle" /\ (NoSchemeOrHost(rsUrl) \/ rsUrl = UrlNotARealScheme)) =>
        /\ rsPc = "returned"
        /\ resolveCalls = 0
        /\ rsResponse.status = "unsupported"
        /\ Contains(Lower(rsResponse.message), StrInvalid)
        /\ rsResponse.processing_time >= 0

\* C8 (amended): with the fallback resolver, a url with no scheme or no host is
\* answered "unsupported" before resolver.resolve is called, with the message
\* "URL domain is not supported" and processing_time >= 0; every "unsupported"
\* answer carries that message; "https://not-a-real-scheme" has a scheme and a
\* host and is not answered "unsupported" by the fallback resolver.
C8_FallbackRejectsNoSchemeOrHost ==
    /\ (~truelinkAvailable /\ rsPc # "idle" /\ NoSchemeOrHost(rsUrl)) =>
          /\ rsPc = "returned"
          /\ resolveCalls = 0
          /\ rsResponse.status = "unsupported"
    /\ (rsPc = "returned" /\ rsResponse.status = "unsupported") =>
          /\ rsResponse.message = MsgUnsupported
          /\ ~Contains(Lower(rsResponse.message), StrInvalid)
          /\ rsResponse.processing_time >= 0
          /\ rsResponse.processing_time = now - startTime
    /\ (~truelinkAvailable /\ rsPc = "returned" /\ rsUrl = UrlNotARealScheme) =>
          (rsResponse.status # "unsupported" /\ resolveCalls = 1)

C8_Witness ==
    /\ ~truelinkAvailable
    /\ rsPc = "returned"
    /\ rsUrl = UrlNoHost
    /\ rsResponse.status = "unsupported"

\* C9: the resolver is constructed with the timeout clamped into [1, MAX_TIMEOUT]
\* and the retries clamped into [0, 10]: 99999 becomes 120 and 0 becomes 1.
C9_ClampedArguments ==
    resolver.kind # "none" =>
        /\ rsArgs.timeout < 1 => resolver.timeout = 1
        /\ rsArgs.timeout > MAX_TIMEOUT => resolver.timeout = MAX_TIMEOUT
        /\ (rsArgs.timeout >= 1 /\ rsArgs.timeout <= MAX_TIMEOUT) => resolver.timeout = rsArgs.timeout
        /\ rsArgs.retries < 0 => resolver.max_retries = 0
        /\ rsArgs.retries > 10 => resolver.max_retries = 10
        /\ (rsArgs.retries >= 0 /\ rsArgs.retries <= 10) => resolver.max_retries = rsArgs.retries
        /\ rsArgs.timeout = 99999 => resolver.timeout = 120
        /\ rsArgs.timeout = 0 => resolver.timeout = 1

C9_Witness ==
    /\ resolver.kind # "none"
    /\ rsArgs.timeout = 0
    /\ resolver.timeout = 1
    /\ rsArgs.retries = 11
    /\ resolver.max_retries = 10

(***************************************************************************)
(* resolve_batch: endpoints/batch.py ("batch") and app.py ("app")          *)
(***************************************************************************)
MAX_BATCH_SIZE_config == 25
MAX_BATCH_SIZE_app == 50
MAX_BATCH_SIZE(h) == IF h = "app" THEN MAX_BATCH_SIZE_app ELSE MAX_BATCH_SIZE_config
ModuleOf(h) == IF h = "app" THEN "app" ELSE "utils"

HTTP_200 == 200
HTTP_400 == 400
HTTP_422 == 422
HTTP_500 == 500

EmptySlot == [kind |-> "empty"]

\* BatchRequest: min_items, max_items and the urls validator
BatchRequestAccepts(h, payload) ==
    /\ Len(payload) >= 1
    /\ Len(payload) <= MAX_BATCH_SIZE(h)
    /\ \A i \in 1..Len(payload) :
          IF h = "app" THEN app_is_valid_url(payload[i]) ELSE is_valid_url(payload[i])

\* The handler's own checks before any task is created (batch.py 29-39; app.py has none)
HandlerRejects(h, payload) ==
    h = "batch" /\ (Len(payload) = 0 \/ Len(payload) > MAX_BATCH_SIZE(h))

\* asyncio.Semaphore.acquire goes through without waiting only while _value > 0
semaphore_unguarded(value) == TRUE
semaphore_free(value) == value > 0

\* leaving `async with semaphore` gives the permit back however the block is
\* left: by return, by an exception, by cancellation
semaphore_release_on_success(value, out) ==
    IF out.kind = "return" /\ out.resp.status = "success" THEN value + 1 ELSE value
semaphore_release(value, out) == value + 1

\* The per-url coroutine around resolve_single: resolve_with_semaphore
\* (batch.py 45-63) turns an Exception into an error item; semaphore_task
\* (app.py 592-594) lets it propagate into gather.
task_result_raising_on_failure(h, url, out) ==
    IF out.kind = "return" /\ out.resp.status \in {"error", "timeout"}
    THEN Raised(out.resp.message)
    ELSE out
task_result(h, url, out) ==
    IF out.kind = "raise" /\ h = "batch"
    THEN Returned(error_response(url, out.msg, 0))
    ELSE out

\* asyncio.gather keeps one result slot per awaitable, in argument order
gather_store_by_completion(s, i, value) ==
    LET free == {k \in 1..Len(s) : s[k].kind = "empty"}
    IN [s EXCEPT ![CHOOSE k \in free : \A j \in free : k <= j] = value]
gather_store(s, i, value) == [s EXCEPT ![i] = value]

\* app.py 603-622: exceptions become error items
app_processed_results(us, s) ==
    [i \in 1..Len(s) |->
        IF s[i].kind = "raise" THEN error_response(us[i], s[i].msg, 0) ELSE s[i].resp]

RECURSIVE app_error_count(_, _)
app_error_count(s, i) ==
    IF i > Len(s) THEN 0
    ELSE app_error_count(s, i + 1)
         + (IF s[i].kind = "raise" THEN 1
            ELSE IF s[i].resp.status = "success" THEN 0 ELSE 1)

RECURSIVE app_success_count(_, _)
app_success_count(s, i) ==
    IF i > Len(s) THEN 0
    ELSE app_success_count(s, i + 1)
         + (IF s[i].kind = "return" /\ s[i].resp.status = "success" THEN 1 ELSE 0)

batch_error_count_only_errors(results) ==
    Cardinality({i \in 1..Len(results) : results[i].status = "error"})
batch_error_count(results) ==
    Len(results) - Cardinality({i \in 1..Len(results) : results[i].status = "success"})

\* The BatchResponse built once gather has returned every slot
BatchResponse(h, us, s) ==
    IF h = "app"
    THEN LET processed == app_processed_results(us, s)
         IN [count |-> Len(processed), results |-> processed,
             success_count |-> app_success_count(s, 1),
             error_count |-> app_error_count(s, 1)]
    ELSE LET results == [i \in 1..Len(s) |-> s[i].resp]
         IN [count |-> Len(results), results |-> results,
             success_count |-> Cardinality({i \in 1..Len(results) : results[i].status = "success"}),
             error_count |-> batch_error_count(results)]

\* Batches sent by clients
PoolUrl(i) == <<UrlA, UrlB, UrlC>>[((i - 1) % 3) + 1]
BatchPayloads(h) ==
    {[i \in 1..n |-> PoolUrl(i)] : n \in 0..MaxUrls}
    \cup {<<UrlA, UrlNoScheme>>, <<UrlDataInPath>>,
          [i \in 1..(MAX_BATCH_SIZE(h) + 1) |-> UrlA]}

\* resolve_single(url, timeout=DEFAULT_TIMEOUT, retries=3) up to its first
\* suspension, tabulated for the urls of the batches above
BatchUrls == UNION {Range(payload) : payload \in BatchPayloads("batch") \cup BatchPayloads("app")}
batch_resolve_single_sync ==
    [h \in {"batch", "app"} |-> [url \in BatchUrls |-> [truelink \in BOOLEAN |->
        [env \in SyncEnvs(truelink) |->
            resolve_single_sync(ModuleOf(h), url, DEFAULT_TIMEOUT, 3, truelink, env, 0)]]]]

Tasks == 1..Len(urls)
InFlight == {i \in Tasks : taskPc[i] = "awaiting"}

\* POST /resolve-batch arrives: validation, the handler's checks, then the
\* semaphore is created and gather is handed one coroutine per url.
ReceiveBatch ==
    /\ bPc = "idle"
    /\ \E payload \in BatchPayloads(handler) :
          /\ bPayload' = payload
          /\ IF ~BatchRequestAccepts(handler, payload)
             THEN /\ bPc' = "rejected"
                  /\ bHttp' = HTTP_422
                  /\ UNCHANGED <<urls, taskPc, semValue, slots, own>>
             ELSE IF HandlerRejects(handler, payload)
             THEN /\ bPc' = "rejected"
                  /\ bHttp' = HTTP_400
                  /\ UNCHANGED <<urls, taskPc, semValue, slots, own>>
             ELSE /\ bPc' = "gathering"
                  /\ bHttp' = bHttp
                  /\ urls' = payload
                  /\ taskPc' = [i \in 1..Len(payload) |-> "queued"]
                  /\ semValue' = concurrentLimit
                  /\ slots' = [i \in 1..Len(payload) |-> EmptySlot]
                  /\ own' = [i \in 1..Len(payload) |-> EmptySlot]
    /\ UNCHANGED <<handler, outOfOrder, bResponse, notBatch>>

\* The longest-waiting task enters `async with semaphore` and runs resolve_single
\* up to its first suspension. A call that ends there (unsupported, or an error
\* raised by the constructor or is_supported) leaves the block at once.
TaskStarts ==
    /\ bPc = "gathering"
    /\ \E i \in Tasks :
          /\ taskPc[i] = "queued"
          /\ \A j \in 1..(i - 1) : taskPc[j] # "queued"
          /\ semaphore_free(semValue)
          /\ \E env \in SyncEnvs(truelinkAvailable) :
                LET sync == batch_resolve_single_sync[handler][urls[i]][truelinkAvailable][env]
                IN IF sync.out.kind = "pending"
                   THEN /\ taskPc' = [taskPc EXCEPT ![i] = "awaiting"]
                        /\ semValue' = semValue - 1
                        /\ UNCHANGED <<slots, own, outOfOrder>>
                   ELSE /\ taskPc' = [taskPc EXCEPT ![i] = "done"]
                        /\ semValue' = semValue
                        /\ own' = [own EXCEPT ![i] = sync.out]
                        /\ slots' = gather_store(slots, i, task_result(handler, urls[i], sync.out))
                        /\ outOfOrder' = (outOfOrder \/ \E j \in 1..(i - 1) : taskPc[j] # "done")
    /\ UNCHANGED <<bPayload, handler, bPc, urls, bHttp, bResponse, notBatch>>

\* A suspended resolver.resolve ends: resolve_single returns, the task leaves
\* `async with semaphore` (release) and gather stores its result.
TaskEnds ==
    /\ bPc = "gathering"
    /\ \E i \in Tasks :
          /\ taskPc[i] = "awaiting"
          /\ \E outcome \in ResolveOutcomes(truelinkAvailable) :
                LET out == resolve_single_resume(urls[i], validate_timeout(DEFAULT_TIMEOUT), outcome, 0)
                IN /\ taskPc' = [taskPc EXCEPT ![i] = "done"]
                   /\ semValue' = semaphore_release(semValue, out)
                   /\ own' = [own EXCEPT ![i] = out]
                   /\ slots' = gather_store(slots, i, task_result(handler, urls[i], out))
                   /\ outOfOrder' = (outOfOrder \/ \E j \in 1..(i - 1) : taskPc[j] # "done")
    /\ UNCHANGED <<bPayload, handler, bPc, urls, bHttp, bResponse, notBatch>>

AllDone == \A i \in Tasks : taskPc[i] = "done"
GatherRaises == handler = "batch" /\ \E i \in Tasks : slots[i].kind = "raise"

\* gather ends: with every slot filled it returns them in argument order; with
\* return_exceptions=False (batch.py) it raises as soon as one task has raised,
\* which the handler turns into HTTP 500.
GatherEnds ==
    /\ bPc = "gathering"
    /\ IF GatherRaises
       THEN /\ bPc' = "failed"
            /\ bHttp' = HTTP_500
            /\ bResponse' = bResponse
       ELSE /\ AllDone
            /\ bPc' = "returned"
            /\ bHttp' = HTTP_200
            /\ bResponse' = BatchResponse(handler, urls, slots)
    /\ UNCHANGED <<bPayload, handler, urls, taskPc, semValue, slots, own, outOfOrder,
                   notBatch>>

\* The request's task is cancelled while gather waits: gather cancels every
\* task not yet done; a task inside `async with semaphore` re-raises
\* CancelledError and leaves the block, a task still waiting for a permit
\* gives up its place. No response is sent.
BatchCancelled ==
    /\ bPc = "gathering"
    /\ bPc' = "cancelled"
    /\ taskPc' = [i \in Tasks |-> IF taskPc[i] = "done" THEN "done" ELSE "cancelled"]
    /\ semValue' = semValue + Cardinality(InFlight)
    /\ UNCHANGED <<bPayload, handler, urls, slots, own, outOfOrder, bHttp, bResponse, notBatch>>

InitBatch ==
    /\ truelinkAvailable \in BOOLEAN
    /\ concurrentLimit \in 1..MaxConcurrentLimit
    /\ handler \in {"batch", "app"}
    /\ SingleIdle
    /\ BatchIdle
    /\ TeraboxIdle
    /\ LinksIdle
    /\ BypassIdle
    /\ StreamIdle
    /\ EndpointIdle
    /\ SharerpwIdle
    /\ UptoboxIdle
    /\ AppTeraboxIdle
    /\ WalkIdle
    /\ DomainsIdle
    /\ teraCookie = FALSE

NextBatch == ReceiveBatch \/ TaskStarts \/ TaskEnds \/ GatherEnds \/ BatchCancelled

SpecBatch == InitBatch /\ [][NextBatch]_vars

(***************************************************************************)
(* Claims about resolve_batch (checked under SpecBatch)                    *)
(***************************************************************************)
\* What a ResolveResponse says about its item, apart from the time it took
Outcome(resp) == <<resp.url, resp.status, resp.type, resp.data, resp.message>>

\* C1: the results of a returned batch are as many as the input urls and
\* results[i].url is the i-th input url, in whatever order the calls completed.
C1_ResultsFollowInputOrder ==
    bPc = "returned" =>
        /\ Len(bResponse.results) = Len(urls)
        /\ \A i \in 1..Len(urls) : bResponse.results[i].url = urls[i]

C1_Witness ==
    /\ bPc = "returned"
    /\ outOfOrder
    /\ Len(urls) >= 3
    /\ urls[1] # urls[2]
    /\ bResponse.results[2].status = "success"
    /\ bResponse.results[1].status = "timeout"

\* C2: never more than CONCURRENT_LIMIT resolve_single calls are started and
\* not yet finished, also for batches longer than the limit.
C2_ConcurrencyCeiling ==
    Cardinality(InFlight) <= concurrentLimit

C2_Witness ==
    /\ Len(urls) > concurrentLimit
    /\ Cardinality(InFlight) = concurrentLimit
    /\ \E i \in Tasks : taskPc[i] = "queued"

\* C3: an item that ends in error or timeout does not abort the batch and
\* changes no sibling: the batch never fails, every finished item's slot holds
\* what its own resolve_single returned, and so does the returned envelope.
C3_FailuresAreIsolated ==
    /\ bPc # "failed"
    /\ \A i \in Tasks : taskPc[i] = "done" =>
          /\ slots[i].kind = "return"
          /\ own[i].kind = "return"
          /\ Outcome(slots[i].resp) = Outcome(own[i].resp)
    /\ bPc = "returned" =>
          /\ bHttp = HTTP_200
          /\ \A i \in Tasks : Outcome(bResponse.results[i]) = Outcome(own[i].resp)

C3_Witness ==
    /\ bPc = "returned"
    /\ \E i, j, k \in Tasks :
          /\ bResponse.results[i].status = "error"
          /\ bResponse.results[j].status = "timeout"
          /\ bResponse.results[k].status = "success"

\* C4: success_count + error_count = count, count is the number of input urls
\* and success_count is the number of results whose status is "success".
C4_CountsAddUp ==
    bPc = "returned" =>
        /\ bResponse.success_count + bResponse.error_count = bResponse.count
        /\ bResponse.count = Len(urls)
        /\ bResponse.success_count =
              Cardinality({i \in 1..Len(bResponse.results) : bResponse.results[i].status = "success"})

C4_Witness ==
    /\ bPc = "returned"
    /\ bResponse.success_count >= 1
    /\ \E i \in Tasks : bResponse.results[i].status = "unsupported"
    /\ \E i \in Tasks : bResponse.results[i].status = "timeout"


\* The event loop runs every task that can run, and every resolve_single call
\* that was started comes to its end.
SpecBatchRuns ==
    SpecBatch /\ WF_vars(TaskStarts) /\ WF_vars(TaskEnds) /\ WF_vars(GatherEnds)

\* C28: a batch that was accepted comes to its end once every resolve_single
\* call ends: no permit is lost (the permits free and the permits held always
\* add up to CONCURRENT_LIMIT, and all are free after a cancellation), so a
\* batch longer than the limit has every url given a permit and an outcome.
C28_BatchTerminates ==
    /\ [](bPc \in {"gathering", "returned", "cancelled"}
            => semValue + Cardinality(InFlight) = concurrentLimit)
    /\ [](bPc = "returned" => \A i \in Tasks : taskPc[i] = "done" /\ slots[i].kind # "empty")
    /\ (bPc = "gathering") ~> (bPc \in {"returned", "cancelled"})

C28_Witness ==
    /\ bPc = "returned"
    /\ Len(urls) > concurrentLimit + 1
    /\ outOfOrder
    /\ \E i \in Tasks : bResponse.results[i].status = "error"
    /\ \E i \in Tasks : bResponse.results[i].status = "timeout"

\* a cancelled batch holds no permit
C28_CancelledReleasesAll ==
    bPc = "cancelled" => (semValue = concurrentLimit /\ InFlight = {})

(***************************************************************************)
(* GET /terabox (endpoints/terabox.py): two upstream APIs queried with     *)
(* asyncio.gather, API 1 preferred.                                        *)
(* JSON values are tagged records; a JSON object carries a function from   *)
(* its keys to JSON values.  Python dicts built by the code are functions  *)
(* whose domain is the set of keys present.                                *)
(***************************************************************************)

\* dict.get(key) and dict.get(key, default)
GetOr(obj, key, default) == IF key \in DOMAIN obj.f THEN obj.f[key] ELSE default
Get(obj, key) == GetOr(obj, key, JNull)
\* bool(value)
Truthy(v) ==
    CASE v.t = "null" -> FALSE
      [] v.t = "bool" -> v.b
      [] v.t = "int" -> v.n # 0
      [] v.t = "str" -> v.s # <<>>
      [] v.t = "object" -> DOMAIN v.f # {}

\* What an upstream API sends back to session.get / response.json()
NetError(msg) == [kind |-> "neterror", error |-> msg]
NonJson == [kind |-> "nonjson"]
Json(v) == [kind |-> "json", data |-> v]

MsgInvalidJson1 == <<"I","n","v","a","l","i","d"," ","J","S","O","N"," ","f","r","o","m"," ","A","P","I"," ","1">>
MsgMissingFields == <<"M","i","s","s","i","n","g"," ","r","e","q","u","i","r","e","d"," ","f","i","e","l","d","s">>
MsgNoneNotIterable == <<"a","r","g","u","m","e","n","t"," ","o","f"," ","t","y","p","e"," ","'","N","o","n","e","T","y","p","e","'"," ","i","s"," ","n","o","t"," ","i","t","e","r","a","b","l","e">>
MsgNoneNoGet == <<"'","N","o","n","e","T","y","p","e","'"," ","o","b","j","e","c","t"," ","h","a","s"," ","n","o"," ","a","t","t","r","i","b","u","t","e"," ","'","g","e","t","'">>
MsgNameFalse == <<"n","a","m","e"," ","'","f","a","l","s","e","'"," ","i","s"," ","n","o","t"," ","d","e","f","i","n","e","d">>
MsgNameTrue == <<"n","a","m","e"," ","'","t","r","u","e","'"," ","i","s"," ","n","o","t"," ","d","e","f","i","n","e","d">>
MsgConnect == <<"C","a","n","n","o","t"," ","c","o","n","n","e","c","t"," ","t","o"," ","h","o","s","t">>
MsgUnknown == <<"U","n","k","n","o","w","n">>
MsgApi1Prefix == <<"A","P","I","1",":"," ">>
MsgApi2Prefix == <<" ","|"," ","A","P","I","2",":"," ">>

Api1Keys == {"file_name", "sizebytes", "thumb", "link", "direct_link"}

Api1Failure(msg) == [success |-> FALSE, api |-> "API 1", error |-> msg]
Api2Failure(msg) == [success |-> FALSE, api |-> "API 2", error |-> msg]

\* all(k in data for k in [...]): a JSON null is not iterable (TypeError,
\* caught by the outer except of try_api_1)
try_api_1_checked(data) ==
    CASE data.t = "null" -> Api1Failure(MsgNoneNotIterable)
      [] data.t = "object" ->
            IF Api1Keys \subseteq DOMAIN data.f
            THEN [success |-> TRUE, api |-> "API 1", data |-> data]
            ELSE Api1Failure(MsgMissingFields)

try_api_1(up) ==
    CASE up.kind = "neterror" -> Api1Failure(up.error)
      [] up.kind = "nonjson" -> Api1Failure(MsgInvalidJson1)
      [] up.kind = "json" -> try_api_1_checked(up.data)

\* try_api_2 spells its booleans `false` and `true`: evaluating either return
\* statement raises NameError, which the outer `except Exception` turns into a
\* failure dict carrying str(e).
try_api_2_checked(data) ==
    CASE data.t = "null" -> Api2Failure(MsgNoneNoGet)
      [] data.t = "object" ->
            IF Truthy(Get(data, "success")) /\ "metadata" \in DOMAIN data.f
                                            /\ "links" \in DOMAIN data.f
            THEN Api2Failure(MsgNameTrue)
            ELSE Api2Failure(MsgNameFalse)

try_api_2(up) ==
    CASE up.kind = "neterror" -> Api2Failure(up.error)
      [] up.kind = "nonjson" -> Api2Failure(MsgNameFalse)
      [] up.kind = "json" -> try_api_2_checked(up.data)

\* models.TeraboxResponse: status is required, sizebytes is Optional[int], the
\* other fields are Optional[str].  A field is None, or a value of its type; a
\* string of digits is accepted for sizebytes and converted.
IsDigits(chars) == chars # <<>> /\ \A i \in 1..Len(chars) : chars[i] \in Range(Digits)
DigitValue(c) == CHOOSE d \in 0..9 : Digits[d + 1] = c
RECURSIVE StrToInt(_)
StrToInt(chars) ==
    IF chars = <<>> THEN 0
    ELSE 10 * StrToInt(SubSeq(chars, 1, Len(chars) - 1)) + DigitValue(chars[Len(chars)])

OptionalStrAccepts(v) == v.t \in {"null", "str"}
OptionalIntAccepts(v) ==
    \/ v.t \in {"null", "int"}
    \/ v.t = "str" /\ IsDigits(Strip(v.s))
OptionalInt(v) == IF v.t = "str" THEN JInt(StrToInt(Strip(v.s))) ELSE v

TeraboxStrFields == {"file_name", "thumb", "link", "direct_link", "dl1", "dl2", "size", "message"}
NoFields == [k \in TeraboxStrFields \cup {"sizebytes"} |-> JNull]

TeraboxResponseAccepts(kw) ==
    /\ \A k \in DOMAIN kw \cap TeraboxStrFields : OptionalStrAccepts(kw[k])
    /\ "sizebytes" \in DOMAIN kw => OptionalIntAccepts(kw["sizebytes"])

TeraboxResponseFields(kw) ==
    [k \in DOMAIN NoFields |->
        IF k \in DOMAIN kw
        THEN (IF k = "sizebytes" THEN OptionalInt(kw[k]) ELSE kw[k])
        ELSE NoFields[k]]

\* TeraboxResponse(status=..., **kw): the model instance, or ValidationError
TeraboxResponse(status, kw) ==
    IF TeraboxResponseAccepts(kw)
    THEN Returned([status |-> status, fields |-> TeraboxResponseFields(kw)])
    ELSE Raised("ValidationError")

\* terabox_endpoint, `if api1_result.get("success")` branch
api1_mapped(data) ==
    TeraboxResponse("success",
        [file_name |-> Get(data, "file_name"),
         thumb |-> Get(data, "thumb"),
         link |-> Get(data, "link"),
         direct_link |-> Get(data, "direct_link"),
         sizebytes |-> Get(data, "sizebytes")])

\* terabox_endpoint, `elif api2_result.get("success")` branch; .get on a
\* metadata or links value that is not a dict raises AttributeError
api2_mapped_from(metadata, links) ==
    IF metadata.t # "object" \/ links.t # "object"
    THEN Raised("AttributeError")
    ELSE TeraboxResponse("success",
            [file_name |-> Get(metadata, "file_name"),
             thumb |-> Get(metadata, "thumb"),
             size |-> Get(metadata, "size"),
             sizebytes |-> Get(metadata, "sizebytes"),
             dl1 |-> Get(links, "dl1"),
             dl2 |-> Get(links, "dl2")])

api2_mapped(data) ==
    api2_mapped_from(GetOr(data, "metadata", JObj(<<>>)), GetOr(data, "links", JObj(<<>>)))

\* api_result.get('error', 'Unknown')
ErrorOf(result) == IF "error" \in DOMAIN result THEN result.error ELSE MsgUnknown

both_failed_api1_only(api1_result, api2_result) ==
    TeraboxResponse("error", [message |-> JStr(MsgApi1Prefix \o ErrorOf(api1_result))])
both_failed(api1_result, api2_result) ==
    TeraboxResponse("error",
        [message |-> JStr(MsgApi1Prefix \o ErrorOf(api1_result)
                          \o MsgApi2Prefix \o ErrorOf(api2_result))])

\* terabox_endpoint after the gather: API 1 is looked at first
process_results(api1_result, api2_result) ==
    IF api1_result.success THEN api1_mapped(api1_result.data)
    ELSE IF api2_result.success THEN api2_mapped(api2_result.data)
    ELSE both_failed(api1_result, api2_result)


\* ---- inputs ----
NameF == <<"a",".","m","k","v">>
ThumbF == <<"t",".","j","p","g">>
LinkF == <<"h","t","t","p",":","/","/","t","/","l">>
DirectF == <<"h","t","t","p",":","/","/","d","/","f">>
Dl1F == <<"h","t","t","p",":","/","/","d","/","1">>
SizeF == <<"1","2"," ","M","B">>
NdusArgs == {<<>>, <<" ">>, <<"n","d">>}

Api1Body(sizebytes) ==
    JObj([file_name |-> JStr(NameF), sizebytes |-> sizebytes, thumb |-> JStr(ThumbF),
          link |-> JStr(LinkF), direct_link |-> JStr(DirectF)])
Api1Upstreams ==
    {NetError(MsgConnect), NonJson, Json(JNull),
     Json(JObj([file_name |-> JStr(NameF), thumb |-> JStr(ThumbF)])),
     Json(Api1Body(JInt(42))),
     Json(Api1Body(JStr(<<"4","2">>))),
     Json(Api1Body(JNull)),
     Json(Api1Body(JStr(SizeF)))}

Api2Body(success) ==
    JObj([success |-> success,
          metadata |-> JObj([file_name |-> JStr(NameF), thumb |-> JStr(ThumbF),
                             size |-> JStr(SizeF), sizebytes |-> JInt(42)]),
          links |-> JObj([dl1 |-> JStr(Dl1F)])])
Api2Upstreams ==
    {NetError(MsgConnect), NonJson, Json(JNull),
     Json(JObj([success |-> JBool(TRUE)])),
     Json(Api2Body(JBool(TRUE))),
     Json(Api2Body(JBool(FALSE)))}

\* ---- actions ----
\* GET /terabox arrives: a blank ndus is refused with 400, otherwise both
\* API calls are started by asyncio.gather.
TeraboxRequest ==
    /\ tbPc = "idle"
    /\ \E ndus \in NdusArgs :
          /\ tbNdus' = ndus
          /\ IF Strip(ndus) = <<>>
             THEN tbPc' = "rejected" /\ tbHttp' = HTTP_400
             ELSE tbPc' = "inflight" /\ tbHttp' = 0
    /\ UNCHANGED <<tbUp1, tbUp2, tbApi1, tbApi2, tbFirst, tbResponse, notTerabox>>

\* API 1 answers (or fails) and try_api_1 returns its dict.
Api1Responds ==
    /\ tbPc = "inflight"
    /\ tbApi1 = NotYet
    /\ \E up \in Api1Upstreams :
          /\ tbUp1' = up
          /\ tbApi1' = try_api_1(up)
    /\ tbFirst' = IF tbFirst = 0 THEN 1 ELSE tbFirst
    /\ UNCHANGED <<tbNdus, tbPc, tbUp2, tbApi2, tbHttp, tbResponse, notTerabox>>

\* API 2 answers (or fails) and try_api_2 returns its dict.
Api2Responds ==
    /\ tbPc = "inflight"
    /\ tbApi2 = NotYet
    /\ \E up \in Api2Upstreams :
          /\ tbUp2' = up
          /\ tbApi2' = try_api_2(up)
    /\ tbFirst' = IF tbFirst = 0 THEN 2 ELSE tbFirst
    /\ UNCHANGED <<tbNdus, tbPc, tbUp1, tbApi1, tbHttp, tbResponse, notTerabox>>

TeraboxAnswer(out) ==
    IF out.kind = "return"
    THEN tbPc' = "returned" /\ tbHttp' = HTTP_200 /\ tbResponse' = out.resp
    ELSE tbPc' = "raised" /\ tbHttp' = HTTP_500 /\ tbResponse' = NoTeraboxResponse

\* The gather has both results: the endpoint picks its answer.  An exception
\* raised here is not caught by the endpoint and the framework answers 500.
ProcessResults ==
    /\ tbPc = "inflight"
    /\ tbApi1 # NotYet
    /\ tbApi2 # NotYet
    /\ TeraboxAnswer(process_results(tbApi1, tbApi2))
    /\ UNCHANGED <<tbNdus, tbUp1, tbUp2, tbApi1, tbApi2, tbFirst, notTerabox>>

InitTerabox ==
    /\ truelinkAvailable = TRUE
    /\ concurrentLimit = 1
    /\ handler = "batch"
    /\ SingleIdle
    /\ BatchIdle
    /\ TeraboxIdle
    /\ LinksIdle
    /\ BypassIdle
    /\ StreamIdle
    /\ EndpointIdle
    /\ SharerpwIdle
    /\ UptoboxIdle
    /\ AppTeraboxIdle
    /\ WalkIdle
    /\ DomainsIdle
    /\ teraCookie = FALSE

NextTerabox == TeraboxRequest \/ Api1Responds \/ Api2Responds \/ ProcessResults

SpecTerabox == InitTerabox /\ [][NextTerabox]_vars

(***************************************************************************)
(* Claims about GET /terabox (checked under SpecTerabox)                   *)
(***************************************************************************)
\* API 1's schema check: the body is a JSON object carrying the five keys
Api1PassesSchema(up) ==
    up.kind = "json" /\ up.data.t = "object" /\ Api1Keys \subseteq DOMAIN up.data.f

SameNumber(got, sent) ==
    \/ got = sent
    \/ sent.t = "str" /\ got.t = "int" /\ IntToStr(got.n) = sent.s

IsApi1Mapped(resp, data) ==
    /\ resp.status = "success"
    /\ \A k \in Api1Keys \ {"sizebytes"} : resp.fields[k] = data.f[k]
    /\ SameNumber(resp.fields["sizebytes"], data.f["sizebytes"])

\* C10: once the endpoint has dealt with both results, a response of API 1 that
\* passed API 1's schema check means the endpoint returned API 1's mapped
\* success, whatever API 2 sent and whichever API answered first.
C10_Api1SuccessWins ==
    (tbPc \in {"returned", "raised"} /\ Api1PassesSchema(tbUp1))
        => (tbPc = "returned" /\ IsApi1Mapped(tbResponse, tbUp1.data))

\* API 2's schema check: success truthy, metadata and links present
Api2PassesSchema(up) ==
    /\ up.kind = "json"
    /\ up.data.t = "object"
    /\ Truthy(Get(up.data, "success"))
    /\ {"metadata", "links"} \subseteq DOMAIN up.data.f

IsApi2Mapped(resp, data) ==
    /\ resp.status = "success"
    /\ \A k \in {"file_name", "thumb", "size", "sizebytes"} :
          resp.fields[k] = Get(data.f["metadata"], k)
    /\ \A k \in {"dl1", "dl2"} : resp.fields[k] = Get(data.f["links"], k)

\* C11 (as claimed): when API 1 failed and API 2's response passes API 2's
\* schema check, the endpoint returns status success carrying API 2's mapped
\* fields (file_name, thumb, size, sizebytes, dl1, dl2).
C11_Api2Fallback ==
    (tbPc \in {"returned", "raised"} /\ ~Api1PassesSchema(tbUp1) /\ Api2PassesSchema(tbUp2))
        => (tbPc = "returned" /\ IsApi2Mapped(tbResponse, tbUp2.data))

PDict(items) == [t |-> "dict", items |-> items]
PList(items) == [t |-> "list", items |-> items]
Item(key, value) == [k |-> key, v |-> value]

MAX_WALK_DEPTH == 15
MIN_LINK_LENGTH == 10
possible_fields ==
    <<"direct_links", "files", "items", "url", "download_url", "direct_url", "links",
      "file_url", "download_link", "dl_link", "downloadUrl", "direct_link", "dl1", "dl2">>
StrHttpPrefix == <<"h","t","t","p",":","/","/">>
StrHttpsPrefix == <<"h","t","t","p","s",":","/","/">>
skipped_protocols ==
    {<<"j","a","v","a","s","c","r","i","p","t",":">>, <<"m","a","i","l","t","o",":">>,
     <<"t","e","l",":">>, <<"d","a","t","a",":">>}

\* `not obj`
Falsy(obj) ==
    CASE obj.t = "null" -> TRUE
      [] obj.t = "str" -> obj.s = <<>>
      [] obj.t = "int" -> obj.n = 0
      [] obj.t \in {"dict", "list"} -> obj.items = <<>>

is_valid_download_url_any_scheme(obj) ==
    /\ obj.t = "str"
    /\ \A p \in skipped_protocols : ~Contains(Lower(obj.s), p)
    /\ Len(Strip(obj.s)) >= MIN_LINK_LENGTH
is_valid_download_url(obj) ==
    /\ obj.t = "str"
    /\ StartsWith(obj.s, StrHttpPrefix) \/ StartsWith(obj.s, StrHttpsPrefix)
    /\ \A p \in skipped_protocols : ~Contains(Lower(obj.s), p)
    /\ Len(Strip(obj.s)) >= MIN_LINK_LENGTH

HasKey(items, key) == \E i \in 1..Len(items) : items[i].k = key
ValueOf(items, key) == items[CHOOSE i \in 1..Len(items) : items[i].k = key].v
ValuesOf(items) == [i \in 1..Len(items) |-> items[i].v]

\* The values walk_data descends into, in the order it visits them: the
\* priority fields that are present and truthy, then every item whose key is
\* not a priority field; for a list, its elements.
PriorityFields(items) ==
    SelectSeq(possible_fields, LAMBDA f : HasKey(items, f) /\ ~Falsy(ValueOf(items, f)))
PriorityValues(items, fields) == [i \in 1..Len(fields) |-> ValueOf(items, fields[i])]
Children(obj) ==
    IF obj.t = "dict"
    THEN PriorityValues(obj.items, PriorityFields(obj.items))
         \o ValuesOf(SelectSeq(obj.items, LAMBDA it : it.k \notin Range(possible_fields)))
    ELSE IF obj.t = "list" THEN obj.items
    ELSE <<>>

\* walk_data: the arguments of links.add, in the order of the calls
RECURSIVE walk_data(_, _)
RECURSIVE walk_each(_, _)
walk_data(obj, depth) ==
    IF depth > MAX_WALK_DEPTH \/ Falsy(obj) THEN <<>>
    ELSE IF is_valid_download_url(obj) THEN <<obj.s>>
    ELSE walk_each(Children(obj), depth + 1)
walk_each(objs, depth) ==
    IF objs = <<>> THEN <<>>
    ELSE walk_data(Head(objs), depth) \o walk_each(Tail(objs), depth)

\* resolved_data.get("data", resolved_data)
DataOf(resolved_data) ==
    IF HasKey(resolved_data.items, "data") THEN ValueOf(resolved_data.items, "data")
    ELSE resolved_data

\* list(links): the elements of the set, once each, in the set's iteration
\* order, which for strings depends on the process's hash seed
Orderings(links) ==
    {q \in [1..Cardinality(links) -> links] : \A i, j \in DOMAIN q : q[i] = q[j] => i = j}
list_of_set(discovered) == Orderings(Range(discovered))

\* ---- inputs ----
MaxNest == 16
RECURSIVE Nest(_, _)
Nest(n, value) == IF n = 0 THEN value ELSE PList(<<Nest(n - 1, value)>>)

LinkShort == <<"h","t","t","p",":","/","/","a">>
LinkMailto == <<"h","t","t","p",":","/","/","a",".","i","o","/","m","a","i","l","t","o",":","x">>
LinkBlank == <<" "," "," "," "," "," "," "," "," "," "," ">>
PayloadValues ==
    {JStr(UrlA), JStr(UrlB), JStr(UrlFtp), JStr(LinkShort), JStr(LinkMailto), JStr(LinkBlank),
     JStr(<<>>), JNull, JInt(7),
     PList(<<JStr(UrlB), JStr(UrlA)>>),
     PDict(<<Item("name", JStr(UrlC)), Item("url", JStr(UrlA))>>)}
PayloadKeys == {"dl1", "url", "name", "mirror", "data"}
Payloads ==
    {PDict(<<Item(k[1], v1), Item(k[2], v2)>>) :
        k \in {kk \in PayloadKeys \X (PayloadKeys \ {"data"}) : kk[1] # kk[2]},
        v1 \in PayloadValues, v2 \in PayloadValues}
    \cup {PDict(<<Item("url", Nest(n, JStr(UrlA)))>>) : n \in (MaxNest - 3)..MaxNest}

\* extract_direct_links(resolved_data) runs to its return
ExtractDirectLinks ==
    /\ lkPc = "idle"
    /\ \E payload \in Payloads :
          /\ lkPayload' = payload
          /\ lkDiscovered' = walk_data(DataOf(payload), 0)
          /\ lkResult' \in list_of_set(walk_data(DataOf(payload), 0))
    /\ lkPc' = "returned"
    /\ UNCHANGED notLinks

InitLinks ==
    /\ truelinkAvailable = TRUE
    /\ concurrentLimit = 1
    /\ handler = "batch"
    /\ SingleIdle
    /\ BatchIdle
    /\ TeraboxIdle
    /\ LinksIdle
    /\ BypassIdle
    /\ StreamIdle
    /\ EndpointIdle
    /\ SharerpwIdle
    /\ UptoboxIdle
    /\ AppTeraboxIdle
    /\ WalkIdle
    /\ DomainsIdle
    /\ teraCookie = FALSE

NextLinks == ExtractDirectLinks

SpecLinks == InitLinks /\ [][NextLinks]_vars

(***************************************************************************)
(* Claims about extract_direct_links (checked under SpecLinks)             *)
(***************************************************************************)
\* The distinct elements of a sequence, each at the place of its first occurrence
RECURSIVE FirstSeen(_)
FirstSeen(seq) ==
    IF seq = <<>> THEN <<>>
    ELSE LET init == FirstSeen(SubSeq(seq, 1, Len(seq) - 1))
         IN IF seq[Len(seq)] \in Range(init) THEN init ELSE Append(init, seq[Len(seq)])

\* C13: every string extract_direct_links returns starts with "http://" or
\* "https://" and is neither empty nor made of whitespace only.
C13_OnlyHttpLinks ==
    lkPc = "returned" =>
        \A i \in 1..Len(lkResult) :
            /\ StartsWith(lkResult[i], StrHttpPrefix) \/ StartsWith(lkResult[i], StrHttpsPrefix)
            /\ Strip(lkResult[i]) # <<>>

C13_Witness ==
    /\ lkPc = "returned"
    /\ lkPayload = PDict(<<Item("mirror", JStr(UrlFtp)), Item("url", JStr(UrlA))>>)
    /\ lkResult = <<UrlA>>

\* C14 (as claimed): the list returned holds each accepted url once, in the
\* order in which the walk first discovered it.
C14_FirstDiscoveryOrder ==
    lkPc = "returned" => lkResult = FirstSeen(lkDiscovered)

(***************************************************************************)
(* endpoints/linkvertise.py: universal_bypass picks a scraper from the     *)
(* url; /universal and the /{service} endpoints run one and report.        *)
(***************************************************************************)
StrGdtotLabel == <<".","g","d","t","o","t",".">>
StrFilepress == <<"f","i","l","e","p","r","e","s","s">>
StrERROR == <<"E","R","R","O","R">>
StrErrorColon == <<"E","R","R","O","R",":"," ">>
StrNoHandler == <<"N","o"," ","h","a","n","d","l","e","r"," ","f","o","u","n","d"," ","f","o","r"," ","U","R","L",":"," ">>

\* ParseResult.hostname: drop the userinfo up to the last "@" and the port
\* from the first ":", lower-case; None (here the empty string) when empty
HostInfo(netloc) == SubSeq(netloc, LastIndex(netloc, {"@"}) + 1, Len(netloc))
HostOf(hostinfo, colon) == Lower(IF colon = 0 THEN hostinfo ELSE SubSeq(hostinfo, 1, colon - 1))
hostname(netloc) == HostOf(HostInfo(netloc), FirstIndex(HostInfo(netloc), 1, {":"}))

\* re.match(r"https?:\/\/.+\.gdtot\.\S+", url): anchored at the start, case-sensitive
gdtot_match(url) ==
    \E p \in {StrHttpPrefix, StrHttpsPrefix} :
        /\ StartsWith(url, p)
        /\ \E i \in (Len(p) + 2)..(Len(url) - Len(StrGdtotLabel)) :
               /\ SubSeq(url, i, i + Len(StrGdtotLabel) - 1) = StrGdtotLabel
               /\ url[i + Len(StrGdtotLabel)] \notin Whitespace

\* the dict service_map, in its insertion order
service_map == <<
    [pattern |-> <<"y","a","d","i",".","s","k">>, handler |-> "yandex_disk"],
    [pattern |-> <<"d","i","s","k",".","y","a","n","d","e","x",".","c","o","m">>, handler |-> "yandex_disk"],
    [pattern |-> <<"m","e","d","i","a","f","i","r","e",".","c","o","m">>, handler |-> "mediafire"],
    [pattern |-> <<"u","p","t","o","b","o","x",".","c","o","m">>, handler |-> "uptobox"],
    [pattern |-> <<"o","s","d","n",".","n","e","t">>, handler |-> "osdn"],
    [pattern |-> <<"g","i","t","h","u","b",".","c","o","m">>, handler |-> "github"],
    [pattern |-> <<"h","x","f","i","l","e",".","c","o">>, handler |-> "hxfile"],
    [pattern |-> <<"1","d","r","v",".","m","s">>, handler |-> "onedrive"],
    [pattern |-> <<"p","i","x","e","l","d","r","a","i","n",".","c","o","m">>, handler |-> "pixeldrain"],
    [pattern |-> <<"a","n","t","f","i","l","e","s",".","c","o","m">>, handler |-> "antfiles"],
    [pattern |-> <<"s","t","r","e","a","m","t","a","p","e",".","c","o","m">>, handler |-> "streamtape"],
    [pattern |-> <<"r","a","c","a","t","y",".","n","e","t">>, handler |-> "racaty"],
    [pattern |-> <<"1","f","i","c","h","i","e","r",".","c","o","m">>, handler |-> "fichier"],
    [pattern |-> <<"s","o","l","i","d","f","i","l","e","s",".","c","o","m">>, handler |-> "solidfiles"],
    [pattern |-> <<"k","r","a","k","e","n","f","i","l","e","s",".","c","o","m">>, handler |-> "krakenfiles"],
    [pattern |-> <<"u","p","l","o","a","d",".","e","e">>, handler |-> "uploadee"],
    [pattern |-> <<"a","k","m","f","i","l","e","s",".","c","o","m">>, handler |-> "akmfiles"],
    [pattern |-> <<"l","i","n","k","b","o","x",".","t","o">>, handler |-> "linkbox"],
    [pattern |-> <<"s","h","r","d","s","k",".","m","e">>, handler |-> "shrdsk"],
    [pattern |-> <<"l","e","t","s","u","p","l","o","a","d",".","i","o">>, handler |-> "letsupload"],
    [pattern |-> <<"z","i","p","p","y","s","h","a","r","e",".","c","o","m">>, handler |-> "zippyshare"],
    [pattern |-> <<"m","d","i","s","k",".","m","e">>, handler |-> "mdisk"],
    [pattern |-> <<"w","e","t","r","a","n","s","f","e","r",".","c","o","m">>, handler |-> "wetransfer"],
    [pattern |-> <<"w","e",".","t","l">>, handler |-> "wetransfer"],
    [pattern |-> <<"t","e","r","a","b","o","x",".","c","o","m">>, handler |-> "terabox"],
    [pattern |-> <<"t","e","r","a","b","o","x","a","p","p",".","c","o","m">>, handler |-> "terabox"],
    [pattern |-> <<"4","f","u","n","b","o","x",".","c","o","m">>, handler |-> "terabox"],
    [pattern |-> <<"n","e","p","h","o","b","o","x",".","c","o","m">>, handler |-> "terabox"],
    [pattern |-> <<"m","i","r","r","o","b","o","x",".","c","o","m">>, handler |-> "terabox"],
    [pattern |-> <<"m","o","m","e","r","y","b","o","x",".","c","o","m">>, handler |-> "terabox"],
    [pattern |-> <<"f","e","m","b","e","d",".","n","e","t">>, handler |-> "fembed"],
    [pattern |-> <<"f","e","m","b","e","d",".","c","o","m">>, handler |-> "fembed"],
    [pattern |-> <<"f","e","m","a","x","2","0",".","c","o","m">>, handler |-> "fembed"],
    [pattern |-> <<"f","c","d","n",".","s","t","r","e","a","m">>, handler |-> "fembed"],
    [pattern |-> <<"f","e","u","r","l",".","c","o","m">>, handler |-> "fembed"],
    [pattern |-> <<"l","a","y","a","r","k","a","c","a","x","x","i",".","i","c","u">>, handler |-> "fembed"],
    [pattern |-> <<"n","a","n","i","p","l","a","y",".","c","o","m">>, handler |-> "fembed"],
    [pattern |-> <<"n","a","n","i","p","l","a","y",".","n","a","n","i","m","e",".","b","i","z">>, handler |-> "fembed"],
    [pattern |-> <<"n","a","n","i","p","l","a","y",".","n","a","n","i","m","e",".","i","n">>, handler |-> "fembed"],
    [pattern |-> <<"m","m","9","8","4","2",".","c","o","m">>, handler |-> "fembed"],
    [pattern |-> <<"s","b","e","m","b","e","d",".","c","o","m">>, handler |-> "sbembed"],
    [pattern |-> <<"w","a","t","c","h","s","b",".","c","o","m">>, handler |-> "sbembed"],
    [pattern |-> <<"s","t","r","e","a","m","s","b",".","n","e","t">>, handler |-> "sbembed"],
    [pattern |-> <<"s","b","p","l","a","y",".","o","r","g">>, handler |-> "sbembed"] >>

FirstPattern(domain) ==
    LET hits == {k \in DOMAIN service_map : Contains(domain, service_map[k].pattern)}
    IN IF hits = {} THEN 0 ELSE CHOOSE k \in hits : \A j \in hits : k <= j

\* the scraper universal_bypass calls for the url, "none" when it falls through
HandlerFor(url, domain) ==
    IF gdtot_match(url) THEN "gdtot"
    ELSE IF Contains(domain, StrFilepress) THEN "filepress"
    ELSE IF FirstPattern(domain) # 0 THEN service_map[FirstPattern(domain)].handler
    ELSE "none"

\* the dict services of the /{service} endpoints
services == <<
    [service |-> "mediafire", handler |-> "mediafire"],
    [service |-> "hxfile", handler |-> "hxfile"],
    [service |-> "letsupload", handler |-> "letsupload"],
    [service |-> "anonfiles", handler |-> "anonfilesBased"],
    [service |-> "fembed", handler |-> "fembed"],
    [service |-> "sbembed", handler |-> "sbembed"],
    [service |-> "onedrive", handler |-> "onedrive"],
    [service |-> "pixeldrain", handler |-> "pixeldrain"],
    [service |-> "antfiles", handler |-> "antfiles"],
    [service |-> "streamtape", handler |-> "streamtape"],
    [service |-> "racaty", handler |-> "racaty"],
    [service |-> "fichier", handler |-> "fichier"],
    [service |-> "solidfiles", handler |-> "solidfiles"],
    [service |-> "krakenfiles", handler |-> "krakenfiles"],
    [service |-> "uploadee", handler |-> "uploadee"],
    [service |-> "filepress", handler |-> "filepress"],
    [service |-> "gdtot", handler |-> "gdtot"],
    [service |-> "sharer", handler |-> "sharer_scraper"],
    [service |-> "wetransfer", handler |-> "wetransfer"],
    [service |-> "akmfiles", handler |-> "akmfiles"],
    [service |-> "shrdsk", handler |-> "shrdsk"],
    [service |-> "linkbox", handler |-> "linkbox"],
    [service |-> "zippyshare", handler |-> "zippyshare"],
    [service |-> "mdisk", handler |-> "mdisk"],
    [service |-> "terabox", handler |-> "terabox"] >>

ServiceNames == {services[k].service : k \in DOMAIN services}
HandlerOf(service) == services[CHOOSE k \in DOMAIN services : services[k].service = service].handler

\* urls asked for
UvGdtot == <<"h","t","t","p","s",":","/","/","m","i","r","r","o","r","7",".","g","d","t","o","t",".","p","r","o","/","f","i","l","e","/","a","b","c">>
UvGdtotUpper == <<"h","t","t","p","s",":","/","/","M","i","r","r","o","r","7",".","G","D","T","O","T",".","p","r","o","/","f","i","l","e","/","a","b","c">>
UvGdtotScheme == <<"H","T","T","P","S",":","/","/","m","i","r","r","o","r","7",".","g","d","t","o","t",".","p","r","o","/","f","i","l","e","/","a","b","c">>
UvGdtotFilepress == <<"h","t","t","p","s",":","/","/","f","i","l","e","p","r","e","s","s",".","g","d","t","o","t",".","p","r","o","/","f","/","1">>
UvGdtotMediafire == <<"h","t","t","p","s",":","/","/","m","e","d","i","a","f","i","r","e",".","c","o","m",".","g","d","t","o","t",".","c","c","/","f">>
UvGdtotBare == <<"h","t","t","p","s",":","/","/","g","d","t","o","t",".","p","r","o","/","f","i","l","e","/","a","b","c">>
UvFilepress == <<"h","t","t","p","s",":","/","/","n","e","w",".","f","i","l","e","p","r","e","s","s",".","s","t","o","r","e","/","f","i","l","e","/","1">>
UvMediafire == <<"h","t","t","p","s",":","/","/","w","w","w",".","m","e","d","i","a","f","i","r","e",".","c","o","m","/","f","i","l","e","/","x">>
UvStreamtape == <<"h","t","t","p","s",":","/","/","s","t","r","e","a","m","t","a","p","e",".","c","o","m","/","v","/","x">>
UvMdisk == <<"h","t","t","p","s",":","/","/","m","d","i","s","k",".","m","e","/","c","o","n","v","e","r","t","o","r","/","1">>
UvTerabox == <<"h","t","t","p","s",":","/","/","w","w","w",".","t","e","r","a","b","o","x",".","c","o","m","/","s","/","1","x">>
UvYandexPort == <<"h","t","t","p","s",":","/","/","u","@","D","i","s","k",".","Y","a","n","d","e","x",".","c","o","m",":","4","4","3","/","d","/","1">>
UvUnknown == <<"h","t","t","p","s",":","/","/","e","x","a","m","p","l","e",".","o","r","g","/","f","i","l","e">>
UvNotUrl == <<"n","o","t"," ","a"," ","u","r","l">>
UvBracket == <<"h","t","t","p","s",":","/","/","[","m","d","i","s","k",".","m","e","/","x">>
BypassUrls == {UvGdtot, UvGdtotUpper, UvGdtotScheme, UvGdtotFilepress, UvGdtotMediafire, UvGdtotBare, UvFilepress, UvMediafire, UvStreamtape, UvMdisk, UvTerabox, UvYandexPort, UvUnknown, UvNotUrl, UvBracket}

(***************************************************************************)
(* The scrapers.  The upstream of one call is one of:                      *)
(*   "link"       pages parse and hold the link, for any caller            *)
(*   "cryptlink"  pages parse, the link is served only with the credential *)
(*   "nolink"     pages parse but hold no link                             *)
(*   "garbage"    the body is not what the scraper indexes into            *)
(*   "neterror"   the first request raises requests.ConnectionError        *)
(***************************************************************************)
UpstreamModes == {"link", "cryptlink", "nolink", "garbage", "neterror"}
SampleLink == <<"h","t","t","p","s",":","/","/","d","l",".","e","x","a","m","p","l","e","/","f",".","b","i","n">>
ExcConnectionError == <<"C","o","n","n","e","c","t","i","o","n","E","r","r","o","r">>
ExcIndexError == <<"I","n","d","e","x","E","r","r","o","r">>
ExcJSONDecodeError == <<"J","S","O","N","D","e","c","o","d","e","E","r","r","o","r">>
MsgLinkNotFound == <<"E","R","R","O","R",":"," ","D","i","r","e","c","t"," ","l","i","n","k"," ","n","o","t"," ","f","o","u","n","d">>
MsgNoCookies == <<"E","R","R","O","R",":"," ","T","e","r","a","b","o","x"," ","c","o","o","k","i","e","s"," ","n","o","t"," ","c","o","n","f","i","g","u","r","e","d">>
MsgJsTokenNotFound == <<"E","R","R","O","R",":"," ","j","s","T","o","k","e","n"," ","n","o","t"," ","f","o","u","n","d">>
MsgInternalServerError == <<"I","n","t","e","r","n","a","l"," ","S","e","r","v","e","r"," ","E","r","r","o","r">>

\* what a scraper call comes to: a returned str, a DDLException, or another
\* exception leaving the scraper; cred counts the requests sent with the credential
ScraperStr(text, cred) == [kind |-> "str", text |-> text, cred |-> cred]
ScraperDDL(text, cred) == [kind |-> "ddl", text |-> text, cred |-> cred]
ScraperRaise(text, cred) == [kind |-> "raise", text |-> text, cred |-> cred]

\* a scraper whose requests and parsing all sit in try/except Exception
guarded(up) ==
    IF up \in {"link", "cryptlink"} THEN ScraperStr(SampleLink, 0)
    ELSE IF up = "neterror" THEN ScraperStr(StrErrorColon \o ExcConnectionError, 0)
    ELSE ScraperStr(StrErrorColon \o ExcIndexError, 0)

\* requests.get(url) outside any try
streamtape(up) ==
    IF up = "neterror" THEN ScraperRaise(ExcConnectionError, 0)
    ELSE IF up \in {"link", "cryptlink"} THEN ScraperStr(SampleLink, 0)
    ELSE ScraperStr(MsgLinkNotFound, 0)

\* requests.get(...).json()["source"] outside any try
mdisk(up) ==
    IF up = "neterror" THEN ScraperRaise(ExcConnectionError, 0)
    ELSE IF up = "garbage" THEN ScraperRaise(ExcJSONDecodeError, 0)
    ELSE IF up = "nolink" THEN ScraperRaise(<<"'","s","o","u","r","c","e","'">>, 0)
    ELSE ScraperStr(SampleLink, 0)

\* filepress(url).get("google_drive", "ERROR")
filepress(up) ==
    IF up \in {"link", "cryptlink"} THEN ScraperStr(SampleLink, 0)
    ELSE IF up = "nolink" THEN ScraperStr(StrErrorColon, 0)
    ELSE ScraperStr(StrERROR, 0)

\* the cookie test left out
terabox_unchecked(cookie, up) ==
    IF up = "neterror" THEN ScraperStr(StrErrorColon \o ExcConnectionError, 1)
    ELSE IF up = "garbage" THEN ScraperStr(MsgJsTokenNotFound, 2)
    ELSE IF up = "nolink" THEN ScraperStr(MsgLinkNotFound, 3)
    ELSE ScraperStr(SampleLink, 3)

\* every request goes through the session holding TERA_COOKIE
terabox(cookie, up) ==
    IF ~cookie THEN ScraperStr(MsgNoCookies, 0)
    ELSE IF up = "neterror" THEN ScraperStr(StrErrorColon \o ExcConnectionError, 1)
    ELSE IF up = "garbage" THEN ScraperStr(MsgJsTokenNotFound, 2)
    ELSE IF up = "nolink" THEN ScraperStr(MsgLinkNotFound, 3)
    ELSE ScraperStr(SampleLink, 3)

scraper(name, cookie, up) ==
    CASE name = "streamtape" -> streamtape(up)
      [] name = "mdisk" -> mdisk(up)
      [] name = "filepress" -> filepress(up)
      [] name = "terabox" -> terabox(cookie, up)
      [] OTHER -> guarded(up)

\* universal_endpoint / service_endpoint: result.startswith("ERROR")
bypass_response(result) ==
    IF StartsWith(result, StrERROR) THEN [success |-> FALSE, text |-> result]
    ELSE [success |-> TRUE, text |-> result]

(***************************************************************************)
(* endpoints/dllink.py: scrapers reading their credential from Config.     *)
(* config.py binds the credentials at module level, after the class body,  *)
(* so class Config has none of them and reading one raises AttributeError. *)
(***************************************************************************)
ConfigAttributes == {
    <<"L","O","G","_","L","E","V","E","L">>, <<"M","A","X","_","B","A","T","C","H","_","S","I","Z","E">>, <<"D","E","F","A","U","L","T","_","T","I","M","E","O","U","T">>, <<"M","A","X","_","T","I","M","E","O","U","T">>,
    <<"C","O","N","C","U","R","R","E","N","T","_","L","I","M","I","T">>, <<"C","H","U","N","K","_","S","I","Z","E">>, <<"E","N","A","B","L","E","_","C","O","R","S">>, <<"T","R","U","S","T","E","D","_","H","O","S","T","S">> }
HasAttr(name) == name \in ConfigAttributes
AttributeError(name) == <<"t","y","p","e"," ","o","b","j","e","c","t"," ","'","C","o","n","f","i","g","'"," ","h","a","s"," ","n","o"," ","a","t","t","r","i","b","u","t","e"," ","'">> \o name \o <<"'">>

XSRF_TOKEN == <<"X","S","R","F","_","T","O","K","E","N">>
LARAVEL_SESSION == <<"L","A","R","A","V","E","L","_","S","E","S","S","I","O","N">>
GDTOT_CRYPT == <<"G","D","T","O","T","_","C","R","Y","P","T">>
HUBDRIVE_CRYPT == <<"H","U","B","D","R","I","V","E","_","C","R","Y","P","T">>
KATDRIVE_CRYPT == <<"K","A","T","D","R","I","V","E","_","C","R","Y","P","T">>
DRIVEFIRE_CRYPT == <<"D","R","I","V","E","F","I","R","E","_","C","R","Y","P","T">>
DIRECT_INDEX == <<"D","I","R","E","C","T","_","I","N","D","E","X">>
MsgCryptNotProvided == <<" ","C","r","y","p","t"," ","N","o","t"," ","P","r","o","v","i","d","e","d"," ","a","n","d"," ","D","i","r","e","c","t"," ","L","i","n","k"," ","G","e","n","e","r","a","t","e"," ","F","a","i","l","e","d">>
MsgSharerNotProvided == <<"X","S","R","F","_","T","O","K","E","N"," ","o","r"," ","L","A","R","A","V","E","L","_","S","E","S","S","I","O","N"," ","n","o","t"," ","P","r","o","v","i","d","e","d","!">>
MsgGdtotNotProvided == <<"D","r","i","v","e"," ","L","i","n","k"," ","n","o","t"," ","f","o","u","n","d",","," ","T","r","y"," ","i","n"," ","y","o","u","r"," ","b","r","o","w","s","e","r","!"," ","G","D","T","O","T","_","C","R","Y","P","T"," ","n","o","t"," ","P","r","o","v","i","d","e","d","!">>
MsgFileRefused == <<"f","i","l","e"," ","n","o","t"," ","f","o","u","n","d">>
MsgExtractionFailed == <<" ","e","x","t","r","a","c","t","i","o","n"," ","f","a","i","l","e","d",":"," ">>
MsgInternalError == <<"I","n","t","e","r","n","a","l"," ","e","r","r","o","r",":"," ">>
SampleText == <<"G","D","r","i","v","e",":"," ","h","t","t","p","s",":","/","/","d","r","i","v","e",".","g","o","o","g","l","e",".","c","o","m","/","x">>

\* the formatted text, once "... and Config.DIRECT_INDEX" has been evaluated
WithDirectIndex(cred) ==
    IF HasAttr(DIRECT_INDEX) THEN ScraperStr(SampleText, cred)
    ELSE ScraperRaise(AttributeError(DIRECT_INDEX), cred)

\* drivescript_scraper(url, crypt, dtype); crypt stands for its truth value
drivescript_scraper(crypt, dtype, up) ==
    IF up = "neterror" THEN ScraperRaise(ExcConnectionError, 0)
    ELSE IF up = "garbage" THEN ScraperRaise(ExcIndexError, 0)
    ELSE IF dtype # <<"D","r","i","v","e","F","i","r","e">> /\ up = "link" THEN WithDirectIndex(0)
    ELSE IF crypt /\ up \in {"link", "cryptlink"} THEN WithDirectIndex(1)
    ELSE IF crypt THEN ScraperDDL(MsgFileRefused, 1)
    ELSE ScraperDDL(dtype \o MsgCryptNotProvided, 0)

\* sharerpw_scraper(url); xsrf and laravel stand for the truth values of the two
\* credentials.  The GET carries both cookies.
sharerpw_scraper(xsrf, laravel, up) ==
    IF ~xsrf /\ ~laravel THEN ScraperDDL(MsgSharerNotProvided, 0)
    ELSE IF up = "neterror" THEN ScraperRaise(ExcConnectionError, 1)
    ELSE IF up = "garbage" THEN ScraperRaise(ExcIndexError, 1)
    ELSE IF up = "nolink" THEN ScraperStr(SampleText, 1)
    ELSE WithDirectIndex(1)

\* gdtot_scraper(url); crypt stands for the truth value of Config.GDTOT_CRYPT
gdtot_scraper(crypt, up) ==
    IF up = "neterror" THEN ScraperDDL(ExcConnectionError, 0)
    ELSE IF up = "link" THEN WithDirectIndex(0)
    ELSE IF ~HasAttr(GDTOT_CRYPT) THEN ScraperRaise(AttributeError(GDTOT_CRYPT), 0)
    ELSE IF ~crypt THEN ScraperDDL(MsgGdtotNotProvided, 0)
    ELSE IF up = "cryptlink" THEN WithDirectIndex(2)
    ELSE ScraperDDL(MsgFileRefused, 2)

\* the endpoints of dllink.py that hand a credential to their scraper
DllinkRoutes == {"dllink/gdtot", "dllink/hubdrive", "dllink/katdrive", "dllink/drivefire", "dllink/sharerpw"}

SourceOf(route) ==
    CASE route = "dllink/gdtot" -> <<"G","D","T","o","T">>
      [] route = "dllink/hubdrive" -> <<"H","u","b","D","r","i","v","e">>
      [] route = "dllink/katdrive" -> <<"K","a","t","D","r","i","v","e">>
      [] route = "dllink/drivefire" -> <<"D","r","i","v","e","F","i","r","e">>
      [] route = "dllink/sharerpw" -> <<"S","h","a","r","e","r","P","W">>

CredentialOf(route) ==
    CASE route = "dllink/gdtot" -> GDTOT_CRYPT
      [] route = "dllink/hubdrive" -> HUBDRIVE_CRYPT
      [] route = "dllink/katdrive" -> KATDRIVE_CRYPT
      [] route = "dllink/drivefire" -> DRIVEFIRE_CRYPT
      [] route = "dllink/sharerpw" -> XSRF_TOKEN

\* the body of the endpoint's try: the argument Config.<X>_CRYPT is evaluated
\* before drivescript_scraper is entered
dllink_call(route, up) ==
    CASE route = "dllink/gdtot" -> gdtot_scraper(HasAttr(GDTOT_CRYPT), up)
      [] route = "dllink/sharerpw" ->
            IF ~HasAttr(XSRF_TOKEN) THEN ScraperRaise(AttributeError(XSRF_TOKEN), 0)
            ELSE IF ~HasAttr(LARAVEL_SESSION) THEN ScraperRaise(AttributeError(LARAVEL_SESSION), 0)
            ELSE sharerpw_scraper(TRUE, TRUE, up)
      [] OTHER ->
            IF ~HasAttr(CredentialOf(route)) THEN ScraperRaise(AttributeError(CredentialOf(route)), 0)
            ELSE drivescript_scraper(TRUE, SourceOf(route), up)

\* except DDLException -> 400, except Exception -> 500
dllink_status(outcome) ==
    IF outcome.kind = "str" THEN HTTP_200 ELSE IF outcome.kind = "ddl" THEN HTTP_400 ELSE HTTP_500

dllink_response(route, outcome) ==
    IF outcome.kind = "str" THEN [success |-> TRUE, text |-> outcome.text]
    ELSE IF outcome.kind = "ddl" THEN [success |-> FALSE, text |-> SourceOf(route) \o MsgExtractionFailed \o outcome.text]
    ELSE [success |-> FALSE, text |-> MsgInternalError \o outcome.text]

(***************************************************************************)
(* One request to a bypass endpoint                                        *)
(***************************************************************************)
BypassAnswer(pc, http, response, cred) ==
    /\ uvPc' = pc
    /\ uvHttp' = http
    /\ uvResponse' = response
    /\ uvCredRequests' = cred

\* GET /universal?url=...: universal_bypass up to the scraper's call; a url
\* without handler is answered at once
UniversalRequest ==
    /\ uvPc = "idle"
    /\ \E url \in BypassUrls :
          /\ uvUrl' = url
          /\ uvRoute' = "universal"
          /\ IF urlparse(url).raised
             THEN /\ uvHandler' = "none"
                  /\ BypassAnswer("raised", HTTP_500, [success |-> FALSE, text |-> MsgInternalServerError], 0)
             ELSE /\ uvHandler' = HandlerFor(url, hostname(urlparse(url).netloc))
                  /\ IF uvHandler' = "none"
                     THEN BypassAnswer("returned", HTTP_200, bypass_response(StrNoHandler \o url), 0)
                     ELSE BypassAnswer("scraping", 0, NoBypassResponse, 0)
    /\ UNCHANGED <<uvUpstream>>
    /\ UNCHANGED notBypass

\* GET /{service}?url=...
ServiceRequest ==
    /\ uvPc = "idle"
    /\ \E url \in BypassUrls, service \in ServiceNames :
          /\ uvUrl' = url
          /\ uvRoute' = service
          /\ uvHandler' = HandlerOf(service)
    /\ BypassAnswer("scraping", 0, NoBypassResponse, 0)
    /\ UNCHANGED <<uvUpstream>>
    /\ UNCHANGED notBypass

\* GET on one of the credential endpoints of dllink.py
DllinkRequest ==
    /\ uvPc = "idle"
    /\ \E url \in BypassUrls, route \in DllinkRoutes :
          /\ uvUrl' = url
          /\ uvRoute' = route
          /\ uvHandler' = route
    /\ BypassAnswer("scraping", 0, NoBypassResponse, 0)
    /\ UNCHANGED <<uvUpstream>>
    /\ UNCHANGED notBypass

\* the scraper of linkvertise.py ends and the endpoint answers; an exception
\* leaving the scraper leaves the endpoint too
ScraperEnds ==
    /\ uvPc = "scraping"
    /\ uvRoute \notin DllinkRoutes
    /\ \E up \in UpstreamModes :
          /\ uvUpstream' = up
          /\ IF scraper(uvHandler, teraCookie, up).kind = "raise"
             THEN BypassAnswer("raised", HTTP_500, [success |-> FALSE, text |-> MsgInternalServerError],
                               scraper(uvHandler, teraCookie, up).cred)
             ELSE BypassAnswer("returned", HTTP_200, bypass_response(scraper(uvHandler, teraCookie, up).text),
                               scraper(uvHandler, teraCookie, up).cred)
    /\ UNCHANGED <<uvRoute, uvUrl, uvHandler>>
    /\ UNCHANGED notBypass

\* the scraper of dllink.py ends and the endpoint answers
DllinkEnds ==
    /\ uvPc = "scraping"
    /\ uvRoute \in DllinkRoutes
    /\ \E up \in UpstreamModes :
          /\ uvUpstream' = up
          /\ BypassAnswer(IF dllink_call(uvRoute, up).kind = "str" THEN "returned" ELSE "raised",
                          dllink_status(dllink_call(uvRoute, up)),
                          dllink_response(uvRoute, dllink_call(uvRoute, up)),
                          dllink_call(uvRoute, up).cred)
    /\ UNCHANGED <<uvRoute, uvUrl, uvHandler>>
    /\ UNCHANGED notBypass

InitBypass ==
    /\ truelinkAvailable = TRUE
    /\ concurrentLimit = 1
    /\ handler = "batch"
    /\ teraCookie \in BOOLEAN
    /\ SingleIdle
    /\ BatchIdle
    /\ TeraboxIdle
    /\ LinksIdle
    /\ BypassIdle
    /\ StreamIdle
    /\ EndpointIdle
    /\ SharerpwIdle
    /\ UptoboxIdle
    /\ AppTeraboxIdle
    /\ WalkIdle
    /\ DomainsIdle

NextBypass ==
    \/ UniversalRequest
    \/ ServiceRequest
    \/ DllinkRequest
    \/ ScraperEnds
    \/ DllinkEnds

SpecBypass == InitBypass /\ [][NextBypass]_vars

(***************************************************************************)
(* Claims about the bypass endpoints                                       *)
(***************************************************************************)
\* a host of the form <sub>.gdtot.<tld>
GdtotHost(host) ==
    \E i \in 2..(Len(host) - Len(StrGdtotLabel)) : SubSeq(host, i, i + Len(StrGdtotLabel) - 1) = StrGdtotLabel
GdtotFamily(url) == ~urlparse(url).raised /\ GdtotHost(hostname(urlparse(url).netloc))

\* C15: universal_bypass hands every url whose host has the form
\* <sub>.gdtot.<tld> to the gdtot scraper, never to filepress, to a scraper of
\* the substring table, or to none.
C15_GdtotFamilyRouted ==
    (uvRoute = "universal" /\ uvPc # "idle" /\ GdtotFamily(uvUrl)) => uvHandler = "gdtot"

\* C16: when no dispatch rule matches the url, /universal invokes no scraper
\* and answers with success false.
C16_NoHandlerIsFailure ==
    (uvRoute = "universal" /\ uvPc \in {"returned", "raised"} /\ uvHandler = "none" /\ ~urlparse(uvUrl).raised)
        => /\ uvPc = "returned"
           /\ uvUpstream = "none"
           /\ uvResponse.success = FALSE

UpstreamFailures == {"nolink", "garbage", "neterror"}

\* C17: whatever fails upstream, a scraper of linkvertise.py returns a string
\* starting with "ERROR" and raises nothing, so the endpoint answers success false.
C17_NoExceptionEscapes ==
    (uvRoute \notin DllinkRoutes /\ uvUpstream \in UpstreamFailures)
        => /\ uvPc = "returned"
           /\ uvResponse.success = FALSE
           /\ StartsWith(uvResponse.text, StrERROR)

\* the credential the scraper asked for is absent
CredentialAbsent ==
    IF uvRoute \in DllinkRoutes THEN ~HasAttr(CredentialOf(uvRoute))
    ELSE uvHandler = "terabox" /\ ~teraCookie

\* the scraper came to the step that needs the credential: gdtot_scraper only
\* after its two credential-free requests went through without a drive link,
\* hubdrive and katdrive unless their credential-free step gave the link
NeedsCredential ==
    CASE uvRoute = "dllink/gdtot" -> uvUpstream \notin {"neterror", "link"}
      [] uvRoute \in {"dllink/hubdrive", "dllink/katdrive"} -> uvUpstream # "link"
      [] OTHER -> TRUE

CredentialNames ==
    IF uvRoute \in DllinkRoutes THEN {CredentialOf(uvRoute)} ELSE {<<"c","o","o","k","i","e","s">>}

HTTP_404 == 404
MaxChunks == 2
UpstreamStatuses == {HTTP_200, HTTP_404, HTTP_500}
CopiedHeaders == {"Content-Type", "Content-Length", "Content-Disposition"}
OfferedHeaders == CopiedHeaders \cup {"Server"}

\* cleanup_resources: close what exists and is not closed yet
close(resource) == IF resource = "open" THEN "closed" ELSE resource

cleanup_resources(response, session) ==
    /\ dsUpstream' = close(response)
    /\ dsSession' = close(session)

\* lines 25-29: the handler awaits resolve_single
DownloadRequest ==
    /\ dsPc = "idle"
    /\ dsPc' = "resolving"
    /\ UNCHANGED <<dsSession, dsUpstream, dsOffered, dsHeaders, dsChunks, dsHttp>>
    /\ UNCHANGED notStream

\* lines 30-75: no direct link -> 404; else the session is created and the
\* handler awaits session.get(target_url)
Resolved ==
    /\ dsPc = "resolving"
    /\ \E found \in BOOLEAN :
          IF found
          THEN /\ dsPc' = "awaiting_get"
               /\ dsSession' = "open"
               /\ dsHttp' = 0
          ELSE /\ dsPc' = "raised"
               /\ dsSession' = "none"
               /\ dsHttp' = HTTP_404
    /\ UNCHANGED <<dsUpstream, dsOffered, dsHeaders, dsChunks>>
    /\ UNCHANGED notStream

\* lines 75-121, 123-126: the upstream answers
GetReturns ==
    /\ dsPc = "awaiting_get"
    /\ \E st \in UpstreamStatuses, offered \in SUBSET OfferedHeaders :
          /\ dsOffered' = offered
          /\ IF st # HTTP_200
             THEN /\ cleanup_resources("open", dsSession)
                  /\ dsPc' = "raised"
                  /\ dsHttp' = st
                  /\ dsHeaders' = {}
             ELSE /\ dsUpstream' = "open"
                  /\ dsSession' = dsSession
                  /\ dsPc' = "returned"
                  /\ dsHttp' = HTTP_200
                  /\ dsHeaders' = offered \cap CopiedHeaders
    /\ UNCHANGED dsChunks
    /\ UNCHANGED notStream

\* lines 127-133: session.get raises aiohttp.ClientError or a timeout
GetRaises ==
    /\ dsPc = "awaiting_get"
    /\ cleanup_resources(dsUpstream, dsSession)
    /\ dsPc' = "raised"
    /\ dsHttp' = HTTP_500
    /\ UNCHANGED <<dsOffered, dsHeaders, dsChunks>>
    /\ UNCHANGED notStream

\* the request is cancelled while the handler awaits session.get:
\* asyncio.CancelledError derives from BaseException, so neither
\* "except HTTPException" nor "except Exception" runs
GetCancelled ==
    /\ dsPc = "awaiting_get"
    /\ dsPc' = "cancelled"
    /\ UNCHANGED <<dsSession, dsUpstream, dsOffered, dsHeaders, dsChunks, dsHttp>>
    /\ UNCHANGED notStream

\* the server takes the first step of stream_generator
GeneratorStarts ==
    /\ dsPc = "returned"
    /\ dsPc' = "streaming"
    /\ UNCHANGED <<dsSession, dsUpstream, dsOffered, dsHeaders, dsChunks, dsHttp>>
    /\ UNCHANGED notStream

\* the client goes away before the first step: the generator is dropped
\* without having been entered, so its try/finally never runs
NeverStarted ==
    /\ dsPc = "returned"
    /\ dsPc' = "cancelled"
    /\ UNCHANGED <<dsSession, dsUpstream, dsOffered, dsHeaders, dsChunks, dsHttp>>
    /\ UNCHANGED notStream

\* lines 103-105
Chunk ==
    /\ dsPc = "streaming"
    /\ dsChunks < MaxChunks
    /\ dsChunks' = dsChunks + 1
    /\ UNCHANGED <<dsPc, dsSession, dsUpstream, dsOffered, dsHeaders, dsHttp>>
    /\ UNCHANGED notStream

\* lines 103-114: the body ends (done), iter_chunked raises (raised), or
\* CancelledError or GeneratorExit is thrown into the generator (cancelled);
\* the finally clause runs in each case
StreamEnds ==
    /\ dsPc = "streaming"
    /\ dsPc' \in {"done", "raised", "cancelled"}
    /\ cleanup_resources(dsUpstream, dsSession)
    /\ UNCHANGED <<dsOffered, dsHeaders, dsChunks, dsHttp>>
    /\ UNCHANGED notStream

InitStream ==
    /\ truelinkAvailable = TRUE
    /\ concurrentLimit = 1
    /\ handler = "batch"
    /\ teraCookie = FALSE
    /\ SingleIdle
    /\ BatchIdle
    /\ TeraboxIdle
    /\ LinksIdle
    /\ BypassIdle
    /\ StreamIdle
    /\ EndpointIdle
    /\ SharerpwIdle
    /\ UptoboxIdle
    /\ AppTeraboxIdle
    /\ WalkIdle
    /\ DomainsIdle

NextStream ==
    \/ DownloadRequest
    \/ Resolved
    \/ GetReturns
    \/ GetRaises
    \/ GetCancelled
    \/ GeneratorStarts
    \/ NeverStarted
    \/ Chunk
    \/ StreamEnds

SpecStream == InitStream /\ [][NextStream]_vars

StreamExited == dsPc \in {"done", "raised", "cancelled"}

\* C19: once the session exists, every way out of download_stream leaves the
\* session closed and the upstream response closed.
C19_EveryExitCloses ==
    (StreamExited /\ dsSession # "none") => (dsSession = "closed" /\ dsUpstream # "open")

(***************************************************************************)
(* endpoints/resolve.py, direct.py, redirect.py: one call of               *)
(* resolve_single, its ResolveResponse turned into an HTTP status.         *)
(***************************************************************************)
HTTP_302 == 302
HTTP_408 == 408
MAX_RETRIES_QUERY == 10
Routes == {"resolve", "direct", "redirect"}

\* Query(..., ge=1, le=Config.MAX_TIMEOUT) and Query(3, ge=0, le=10)
QueryAccepts(timeout, retries) ==
    /\ timeout >= 1
    /\ timeout <= MAX_TIMEOUT
    /\ retries >= 0
    /\ retries <= MAX_RETRIES_QUERY

\* url: HttpUrl of /direct, on the urls asked here: an http or https scheme and a host
HttpUrlAccepts(url) == SchemeAndNetloc(urlparse(url))
DirectUrls == {UrlA, UrlFtp, UrlNoScheme, UrlNoHost}
UrlsOf(route) == IF route = "direct" THEN DirectUrls ELSE SingleUrls

UrlAccepts(route, url) == route # "direct" \/ HttpUrlAccepts(url)

\* resolve.py 37-42
resolve_status(status) ==
    CASE status = "error" -> HTTP_500
      [] status = "timeout" -> HTTP_408
      [] status = "unsupported" -> HTTP_400
      [] OTHER -> HTTP_200

\* direct.py 38-47: status_map.get(result.status, 500)
direct_status(status) ==
    CASE status = "unsupported" -> HTTP_400
      [] status = "timeout" -> HTTP_408
      [] OTHER -> HTTP_500

\* redirect.py 40-45
redirect_status(status) == HTTP_400

\* the status a route answers for a ResolveResponse; found says whether
\* extract_direct_links(result.data or {}) gave a link
status_of(route, resp, found) ==
    IF route = "resolve" THEN resolve_status(resp.status)
    ELSE IF resp.status # "success"
         THEN (IF route = "direct" THEN direct_status(resp.status) ELSE redirect_status(resp.status))
    ELSE IF ~found THEN HTTP_404
    ELSE IF route = "direct" THEN HTTP_200 ELSE HTTP_302

\* the request arrives; FastAPI validates the query before the handler runs
EndpointRequest ==
    /\ epPc = "idle"
    /\ rsPc = "idle"
    /\ \E route \in Routes, timeout \in Timeouts, retries \in RetriesArgs :
          \E url \in UrlsOf(route) :
              /\ epRoute' = route
              /\ epQuery' = [url |-> url, timeout |-> timeout, retries |-> retries]
              /\ IF QueryAccepts(timeout, retries) /\ UrlAccepts(route, url)
                 THEN epPc' = "resolving" /\ epHttp' = 0
                 ELSE epPc' = "answered" /\ epHttp' = HTTP_422
    /\ UNCHANGED <<singleVars, notEndpoint>>

\* the handler calls resolve_single with its query parameters, and
\* resolve_single runs as in the section above
EndpointResolves ==
    /\ epPc = "resolving"
    /\ \/ /\ CallResolveSingle
          /\ rsUrl' = epQuery.url
          /\ rsArgs' = [timeout |-> epQuery.timeout, retries |-> epQuery.retries]
       \/ Tick
       \/ ResolveEnds
    /\ UNCHANGED endpointVars

\* resolve_single is back: the handler answers; an exception out of
\* resolve_single ends in "except Exception" with 500
EndpointAnswers ==
    /\ epPc = "resolving"
    /\ rsPc \in {"returned", "raised"}
    /\ epPc' = "answered"
    /\ \E found \in {f \in BOOLEAN : f => rsResponse.data # None} :
          epHttp' = IF rsPc = "raised" THEN HTTP_500 ELSE status_of(epRoute, rsResponse, found)
    /\ UNCHANGED <<epRoute, epQuery, singleVars, notEndpoint>>

InitEndpoint ==
    /\ truelinkAvailable \in BOOLEAN
    /\ concurrentLimit = 1
    /\ handler = "batch"
    /\ teraCookie = FALSE
    /\ SingleIdle
    /\ BatchIdle
    /\ TeraboxIdle
    /\ LinksIdle
    /\ BypassIdle
    /\ StreamIdle
    /\ EndpointIdle
    /\ SharerpwIdle
    /\ UptoboxIdle
    /\ AppTeraboxIdle
    /\ WalkIdle
    /\ DomainsIdle

NextEndpoint ==
    \/ EndpointRequest
    \/ EndpointResolves
    \/ EndpointAnswers

SpecEndpoint == InitEndpoint /\ [][NextEndpoint]_vars

\* C20: /resolve, /direct and /redirect each answer 400 for an unsupported
\* url, 408 for a timeout and 500 for an error of resolve_single, and
\* /resolve answers 400 for a url that is_valid_url refuses.
C20_FailureClassesDistinct ==
    /\ (epPc = "answered" /\ rsPc = "returned" /\ rsResponse.status = "unsupported") => epHttp = HTTP_400
    /\ (epPc = "answered" /\ rsPc = "returned" /\ rsResponse.status = "timeout") => epHttp = HTTP_408
    /\ (epPc = "answered" /\ rsPc = "returned" /\ rsResponse.status = "error") => epHttp = HTTP_500
    /\ (epPc = "answered" /\ epRoute = "resolve" /\ ~truelinkAvailable /\ rsPc # "idle"
            /\ ~is_valid_url(epQuery.url)) => epHttp = HTTP_400

(***************************************************************************)
(* Further claims about resolve_batch                                      *)
(***************************************************************************)
SizeRefused(h, payload) == Len(payload) = 0 \/ Len(payload) > MAX_BATCH_SIZE(h)

\* C21: a batch of zero urls or of more than MAX_BATCH_SIZE urls is refused
\* with HTTP 400 and starts no resolve_single call; a batch of 1..MAX_BATCH_SIZE
\* valid urls is accepted.
C21_SizeRefusedWith400 ==
    /\ (bPc = "rejected" /\ SizeRefused(handler, bPayload)) => (bHttp = HTTP_400 /\ taskPc = <<>>)
    /\ (bPc # "idle" /\ ~SizeRefused(handler, bPayload)
            /\ \A i \in 1..Len(bPayload) : is_valid_url(bPayload[i]) /\ app_is_valid_url(bPayload[i]))
          => bPc # "rejected"

(***************************************************************************)
(* endpoints/supported_domains.py: the list of domains, kept for CACHE_TTL *)
(* seconds in the module-level dict _domains_cache.                        *)
(***************************************************************************)
CACHE_TTL == 60
MaxNow == 120

\* domain names, in alphabetical order; a list of domains is a sequence of indices
DomainNames == <<"example.com", "site.org", "test.com">>
FallbackDomains == <<1, 3>>

\* what the resolver's get_supported_domains returns: the fallback's fixed list,
\* or whatever the TrueLink library answers at that moment ("raises" when it throws)
DomainLists(truelink) ==
    IF truelink
    THEN {[raises |-> FALSE, list |-> l] : l \in {<<3, 1>>, <<2, 2, 1>>, <<>>}}
         \cup {[raises |-> TRUE, list |-> <<>>]}
    ELSE {[raises |-> FALSE, list |-> FallbackDomains]}

\* sorted(set(domains))
RECURSIVE SortedFrom(_, _)
SortedFrom(members, from) ==
    IF from > Len(DomainNames) THEN <<>>
    ELSE (IF from \in members THEN <<DomainNames[from]>> ELSE <<>>) \o SortedFrom(members, from + 1)
sorted_set(domains) == SortedFrom(Range(domains), 1)

\* lines 42-49
domains_result(domains, t, truelink) ==
    [count |-> Len(sorted_set(domains)), domains |-> sorted_set(domains),
     last_updated |-> t, truelink_available |-> truelink]

\* line 32: the cache holds data and is younger than CACHE_TTL
cache_fresh(cache, t) == cache.data # NoData /\ t - cache.timestamp < CACHE_TTL

\* the handler: answer, status and the cache it leaves
supported_domains(cache, domains, t, truelink) ==
    IF cache_fresh(cache, t) THEN [http |-> HTTP_200, body |-> cache.data.v, cache |-> cache]
    ELSE IF domains.raises THEN [http |-> HTTP_500, body |-> NoDomains, cache |-> cache]
    ELSE [http |-> HTTP_200, body |-> domains_result(domains.list, t, truelink),
          cache |-> [data |-> DictData(domains_result(domains.list, t, truelink)), timestamp |-> t]]

SupportedDomainsRequest ==
    /\ \E domains \in DomainLists(truelinkAvailable) :
          /\ sdHttp' = supported_domains(sdCache, domains, sdNow, truelinkAvailable).http
          /\ sdResponse' = supported_domains(sdCache, domains, sdNow, truelinkAvailable).body
          /\ sdCache' = supported_domains(sdCache, domains, sdNow, truelinkAvailable).cache
          /\ sdFresh' = supported_domains(StartupCache, domains, sdNow, truelinkAvailable).body
    /\ UNCHANGED sdNow
    /\ UNCHANGED notDomains

\* time passes between requests
DomainsTick ==
    /\ \E step \in {CACHE_TTL \div 3, CACHE_TTL} :
          /\ sdNow + step <= MaxNow
          /\ sdNow' = sdNow + step
    /\ UNCHANGED <<sdCache, sdHttp, sdResponse, sdFresh>>
    /\ UNCHANGED notDomains

InitDomains ==
    /\ truelinkAvailable \in BOOLEAN
    /\ concurrentLimit = 1
    /\ handler = "batch"
    /\ teraCookie = FALSE
    /\ SingleIdle
    /\ BatchIdle
    /\ TeraboxIdle
    /\ LinksIdle
    /\ BypassIdle
    /\ StreamIdle
    /\ EndpointIdle
    /\ SharerpwIdle
    /\ UptoboxIdle
    /\ AppTeraboxIdle
    /\ WalkIdle
    /\ DomainsIdle

NextDomains == SupportedDomainsRequest \/ DomainsTick

SpecDomains == InitDomains /\ [][NextDomains]_vars

\* C22: no request handler writes module-level state: _domains_cache keeps
\* its startup value, and an answer is what a process just started would give.
C22_NoProcessWideWrites ==
    /\ sdCache = StartupCache
    /\ sdHttp = HTTP_200 => sdResponse = sdFresh

(***************************************************************************)
(* Further claims about resolve_single                                     *)
(***************************************************************************)
\* C23: one resolve_single call invokes resolver.resolve at most once, whatever
\* retries was asked and however that invocation ended.
C23_ResolveInvokedAtMostOnce ==
    /\ resolveCalls <= 1
    /\ (rsPc = "returned" /\ rsResponse.status \in {"success", "timeout"}) => resolveCalls = 1

C23_Witness ==
    /\ rsPc = "returned"
    /\ rsArgs.retries = 10
    /\ resolver.max_retries = 10
    /\ rsResponse.status = "error"
    /\ rsResponse.message = MsgBoom
    /\ resolveCalls = 1

(***************************************************************************)
(* Further claims about extract_direct_links (checked under SpecLinks)     *)
(***************************************************************************)
\* The accepted strings among the values and elements of a payload, the
\* payload itself standing at depth 0
RECURSIVE AcceptedScalars(_, _)
AcceptedScalars(obj, depth) ==
    IF depth > MAX_WALK_DEPTH THEN {}
    ELSE IF obj.t \in {"dict", "list"}
    THEN UNION {AcceptedScalars(v, depth + 1) :
                   v \in Range(IF obj.t = "dict" THEN ValuesOf(obj.items) ELSE obj.items)}
    ELSE IF is_valid_download_url(obj) THEN {obj.s}
    ELSE {}

\* C24 (as claimed): the strings extract_direct_links returns are exactly the
\* accepted strings that occur in the payload as a mapping value or a
\* sequence element down to depth 15: none is left out, nothing else is added.
C24_ExactlyAcceptedScalars ==
    lkPc = "returned" => Range(lkResult) = AcceptedScalars(lkPayload, 0)

\* the same statement for payloads that have no "data" key
C24_WithoutDataKey ==
    (lkPc = "returned" /\ ~HasKey(lkPayload.items, "data"))
        => Range(lkResult) = AcceptedScalars(lkPayload, 0)

\* nothing is returned that the payload does not hold
C24_NothingElse ==
    lkPc = "returned" => Range(lkResult) \subseteq AcceptedScalars(lkPayload, 0)

(***************************************************************************)
(* utils.extract_direct_links over payloads that may refer to themselves.  *)
(* The payload is a heap of objects: a list holds the indices of its       *)
(* elements, a dict the indices of its values, object 1 is the one         *)
(* walk_data is first called with. The recursion is unfolded into the      *)
(* walk_data calls still to be made.                                       *)
(***************************************************************************)
MaxDepthSeen == 20

Call(id, depth) == [id |-> id, depth |-> depth]

\* the depth test left out
depth_never_exceeded(depth) == FALSE

\* `if depth > 15: return`
depth_exceeded(depth) == depth > MAX_WALK_DEPTH

\* the objects walk_data passes on, in the order of its calls (Children, on a heap)
HeapPriorityFields(heap, items) ==
    SelectSeq(possible_fields, LAMBDA f : HasKey(items, f) /\ ~Falsy(heap[ValueOf(items, f)]))
HeapChildren(heap, obj) ==
    IF obj.t = "dict"
    THEN PriorityValues(obj.items, HeapPriorityFields(heap, obj.items))
         \o ValuesOf(SelectSeq(obj.items, LAMBDA it : it.k \notin Range(possible_fields)))
    ELSE IF obj.t = "list" THEN obj.items
    ELSE <<>>

\* ---- inputs ----
\* a = []; a.append(a)
HeapSelfList == <<PList(<<1>>)>>
\* a = []; a.extend([a, a])
HeapTwiceSelfList == <<PList(<<1, 1>>)>>
\* d = {}; d["url"] = d; d["name"] = [d, "http://a.io/f"]
HeapSelfDict == <<PDict(<<Item("name", 2), Item("url", 1)>>), PList(<<1, 3>>), JStr(UrlA)>>
\* {"mirror": ["https://b.io/g", None], "url": "http://a.io/f"}
HeapTree == <<PDict(<<Item("mirror", 2), Item("url", 3)>>), PList(<<4, 5>>), JStr(UrlA), JStr(UrlB), JNull>>
Heaps == {HeapSelfList, HeapTwiceSelfList, HeapSelfDict, HeapTree}

\* the tree a heap without cycles stands for
RECURSIVE Unfold(_, _)
Unfold(heap, id) ==
    LET obj == heap[id]
    IN IF obj.t = "dict"
       THEN PDict([i \in 1..Len(obj.items) |-> Item(obj.items[i].k, Unfold(heap, obj.items[i].v))])
       ELSE IF obj.t = "list"
       THEN PList([i \in 1..Len(obj.items) |-> Unfold(heap, obj.items[i])])
       ELSE obj

\* extract_direct_links calls walk_data(data)
WalkBegins ==
    /\ wkPc = "idle"
    /\ \E heap \in Heaps : wkHeap' = heap
    /\ wkStack' = <<Call(1, 0)>>
    /\ wkPc' = "walking"
    /\ UNCHANGED <<wkDeepest, wkFound, notWalk>>

\* one call of walk_data up to its recursive calls
WalkDataCall ==
    /\ wkPc = "walking"
    /\ wkStack # <<>>
    /\ Head(wkStack).depth <= MaxDepthSeen
    /\ LET call == Head(wkStack)
           obj == wkHeap[call.id]
           children == HeapChildren(wkHeap, obj)
       IN IF depth_exceeded(call.depth)
          THEN /\ wkStack' = Tail(wkStack)
               /\ UNCHANGED <<wkDeepest, wkFound>>
          ELSE /\ wkDeepest' = IF call.depth > wkDeepest THEN call.depth ELSE wkDeepest
               /\ IF Falsy(obj)
                  THEN wkStack' = Tail(wkStack) /\ wkFound' = wkFound
                  ELSE IF is_valid_download_url(obj)
                  THEN wkStack' = Tail(wkStack) /\ wkFound' = Append(wkFound, obj.s)
                  ELSE /\ wkStack' = [i \in 1..Len(children) |-> Call(children[i], call.depth + 1)]
                                        \o Tail(wkStack)
                       /\ wkFound' = wkFound
    /\ UNCHANGED <<wkPc, wkHeap, notWalk>>

\* the outermost walk_data call returns
WalkReturns ==
    /\ wkPc = "walking"
    /\ wkStack = <<>>
    /\ wkPc' = "returned"
    /\ UNCHANGED <<wkHeap, wkStack, wkDeepest, wkFound, notWalk>>

InitWalk ==
    /\ truelinkAvailable = TRUE
    /\ concurrentLimit = 1
    /\ handler = "batch"
    /\ teraCookie = FALSE
    /\ SingleIdle
    /\ BatchIdle
    /\ TeraboxIdle
    /\ LinksIdle
    /\ BypassIdle
    /\ StreamIdle
    /\ EndpointIdle
    /\ SharerpwIdle
    /\ UptoboxIdle
    /\ AppTeraboxIdle
    /\ DomainsIdle
    /\ WalkIdle

NextWalk == WalkBegins \/ WalkDataCall \/ WalkReturns

SpecWalk == InitWalk /\ [][NextWalk]_vars

\* walk_data is ordinary sequential code: a call that can take its next step takes it
SpecWalkRuns == SpecWalk /\ WF_vars(WalkDataCall) /\ WF_vars(WalkReturns)

\* on a payload without cycles the unfolded walk makes the calls of walk_data
WalkAgreesWithTree ==
    (wkPc = "returned" /\ wkHeap = HeapTree) => wkFound = walk_data(Unfold(wkHeap, 1), 0)

\* C25: once begun, the walk returns, on payloads that contain themselves too,
\* and no object is inspected at a depth greater than 15.
C25_WalkTerminatesWithinDepth ==
    /\ [](wkDeepest <= MAX_WALK_DEPTH)
    /\ (wkPc = "walking") ~> (wkPc = "returned")

C25_Witness ==
    /\ wkPc = "returned"
    /\ wkHeap = HeapSelfList
    /\ wkDeepest = MAX_WALK_DEPTH

(***************************************************************************)
(* app.terabox_endpoint: the /terabox handler registered on the app object *)
(* of app.py. It tries the two APIs in a loop with a blocking              *)
(* requests.Session and applies both response formats to each answer.      *)
(***************************************************************************)
MsgAllFailed ==
    <<"F","i","l","e"," ","n","o","t"," ","f","o","u","n","d"," ","o","r"," ","a","l","l"," ","A","P","I"," ","r","e","q","u","e","s","t","s"," ","f","a","i","l","e","d","."," ","P","l","e","a","s","e"," ","c","h","e","c","k"," ","t","h","e"," ","U","R","L"," ","a","n","d"," ","N","D","U","S"," ","c","o","o","k","i","e",".">>
APIS == 2
TeraboxUpstreams == Api1Upstreams \cup Api2Upstreams

\* one iteration of the loop once session.get has ended: the response the
\* handler returns, or "continue". Every exception raised in the try block,
\* the ValidationError of TeraboxResponse included, is caught and continues.
Continue == [kind |-> "continue"]
fallback_format(req) ==
    LET metadata == req.f["metadata"]
        links == req.f["links"]
    IN IF links.t # "object" THEN Continue
       ELSE IF ~(Truthy(Get(links, "dl1")) \/ Truthy(Get(links, "dl2"))) THEN Continue
       ELSE IF api2_mapped_from(metadata, links).kind = "raise" THEN Continue
       ELSE api2_mapped_from(metadata, links)
try_api(up) ==
    IF up.kind # "json" \/ up.data.t # "object" THEN Continue
    ELSE IF \A k \in {"file_name", "sizebytes", "thumb", "link", "direct_link"} : k \in DOMAIN up.data.f
    THEN (IF api1_mapped(up.data).kind = "raise" THEN Continue ELSE api1_mapped(up.data))
    ELSE IF Truthy(Get(up.data, "success")) /\ "metadata" \in DOMAIN up.data.f
                                            /\ "links" \in DOMAIN up.data.f
    THEN fallback_format(up.data)
    ELSE Continue

\* GET /terabox arrives: a blank ndus is refused with 400, otherwise the loop begins
AppTeraboxRequest ==
    /\ taPc = "idle"
    /\ \E ndus \in NdusArgs :
          IF Strip(ndus) = <<>>
          THEN taPc' = "rejected" /\ taHttp' = HTTP_400 /\ taNext' = taNext
          ELSE taPc' = "looping" /\ taHttp' = 0 /\ taNext' = 1
    /\ UNCHANGED <<taStarted, taInflight, taUps, taResponse, notAppTerabox>>

\* session.get(api_url, timeout=15) sends the request of the loop's API
AppApiRequested ==
    /\ taPc = "looping"
    /\ taNext <= APIS
    /\ taInflight = {}
    /\ taStarted' = taStarted \cup {taNext}
    /\ taInflight' = {taNext}
    /\ UNCHANGED <<taPc, taNext, taUps, taHttp, taResponse, notAppTerabox>>

\* session.get returns or raises, and the iteration runs to its return or continue
AppApiEnds ==
    /\ taPc = "looping"
    /\ taInflight = {taNext}
    /\ \E up \in TeraboxUpstreams :
          /\ taUps' = Append(taUps, up)
          /\ IF try_api(up).kind = "return"
             THEN /\ taPc' = "returned" /\ taHttp' = HTTP_200 /\ taResponse' = try_api(up).resp
                  /\ taNext' = taNext
             ELSE /\ taNext' = taNext + 1
                  /\ UNCHANGED <<taPc, taHttp, taResponse>>
    /\ taInflight' = {}
    /\ UNCHANGED <<taStarted, notAppTerabox>>

\* the loop is over and nothing was returned
AppAllFailed ==
    /\ taPc = "looping"
    /\ taNext > APIS
    /\ taPc' = "returned"
    /\ taHttp' = HTTP_200
    /\ taResponse' = TeraboxResponse("error", [message |-> JStr(MsgAllFailed)]).resp
    /\ UNCHANGED <<taNext, taStarted, taInflight, taUps, notAppTerabox>>

InitAppTerabox ==
    /\ truelinkAvailable = TRUE
    /\ concurrentLimit = 1
    /\ handler = "batch"
    /\ teraCookie = FALSE
    /\ SingleIdle
    /\ BatchIdle
    /\ TeraboxIdle
    /\ LinksIdle
    /\ BypassIdle
    /\ StreamIdle
    /\ EndpointIdle
    /\ SharerpwIdle
    /\ UptoboxIdle
    /\ DomainsIdle
    /\ WalkIdle
    /\ AppTeraboxIdle

NextAppTerabox == AppTeraboxRequest \/ AppApiRequested \/ AppApiEnds \/ AppAllFailed

SpecAppTerabox == InitAppTerabox /\ [][NextAppTerabox]_vars

\* endpoints/terabox.py: asyncio.gather starts both helpers and the handler
\* goes on only when both have returned
GatherWaitsForBoth ==
    tbPc \in {"returned", "raised"} => (tbApi1 # NotYet /\ tbApi2 # NotYet)

\* C26 (as claimed): the request to API 2 is sent without waiting for API 1's
\* answer, so that both are in flight together, and the handler answers only
\* after both requests have ended.
C26_BothApisConcurrent ==
    /\ (1 \in taInflight => 2 \in taStarted)
    /\ (taPc = "returned" => (taStarted = 1..APIS /\ taInflight = {}))

\* app.terabox_endpoint never has two requests in flight
C26_OneAtATime == Cardinality(taInflight) <= 1

\* app.terabox_endpoint answers from API 1 alone when API 1 succeeds
C26_AnsweredBeforeApi2 ==
    /\ taPc = "returned"
    /\ taResponse.status = "success"
    /\ taStarted = {1}

(***************************************************************************)
(* endpoints/linkvertise.py uptobox: the link api is asked once and, when  *)
(* it answers statusCode 16, once more after the wait it names.            *)
(***************************************************************************)
MaxWaiting == 30
READY == 0
NOT_READY == 16
LIMITED == 39
OTHER_STATUS == 7
FIRST_SLEEP == 1

\* what the api may answer: a body with statusCode and data.waiting (the
\* other members being there or not), or no JSON body at all
Answer(code, waiting, complete) ==
    [kind |-> "json", statusCode |-> code, waiting |-> waiting, complete |-> complete]
NoBody == [kind |-> "neterror"]
WaitingValues == {JInt(n) : n \in 0..MaxWaiting} \cup {JInt(0 - 1), JNull, JStr(<<"3","0">>)}
FirstAnswers ==
    {NoBody}
    \cup {Answer(code, JInt(0), complete) : code \in {READY, LIMITED, OTHER_STATUS}, complete \in BOOLEAN}
    \cup {Answer(NOT_READY, w, TRUE) : w \in WaitingValues}
    \cup {Answer(NOT_READY, JInt(FIRST_SLEEP), FALSE)}
UptoboxUrls == {"https://uptobox.com/abc123", "https://uptobox.com/"}

\* time.sleep(wait_time): the seconds slept, or the exception raised
sleep_uncapped(wait_time) ==
    IF wait_time.t # "int" THEN [raises |-> "TypeError", slept |-> 0]
    ELSE IF wait_time.n < 0 THEN [raises |-> "ValueError", slept |-> 0]
    ELSE [raises |-> "", slept |-> wait_time.n]

\* the uptobox api is asked for the link of the file id found in the url
UptoboxCalled ==
    /\ ubPc = "idle"
    /\ \E url \in UptoboxUrls :
          IF url = "https://uptobox.com/"
          THEN /\ ubPc' = "returned" /\ ubResult' = "ERROR: IndexError"
               /\ ubRequests' = ubRequests
          ELSE /\ ubPc' = "requested" /\ ubResult' = ubResult
               /\ ubRequests' = ubRequests + 1
    /\ UNCHANGED <<ubFirst, ubSlept, notUptobox>>

\* the first answer arrives; on statusCode 16 the scraper sleeps one second,
\* then the time the answer names, and sends the request again
FirstAnswer ==
    /\ ubPc = "requested"
    /\ \E res \in FirstAnswers :
          /\ ubFirst' = res
          /\ IF res.kind # "json"
             THEN /\ ubPc' = "returned" /\ ubResult' = "ERROR: ConnectionError"
                  /\ UNCHANGED <<ubSlept, ubRequests>>
             ELSE IF res.statusCode = READY
             THEN /\ ubPc' = "returned"
                  /\ ubResult' = IF res.complete THEN "dlLink" ELSE "ERROR: KeyError"
                  /\ UNCHANGED <<ubSlept, ubRequests>>
             ELSE IF res.statusCode = NOT_READY
             THEN IF ~res.complete
                  THEN /\ ubPc' = "returned" /\ ubResult' = "ERROR: KeyError"
                       /\ ubSlept' = ubSlept + FIRST_SLEEP
                       /\ ubRequests' = ubRequests
                  ELSE IF sleep_uncapped(res.waiting).raises # ""
                  THEN /\ ubPc' = "returned"
                       /\ ubResult' = IF res.waiting.t # "int" THEN "ERROR: TypeError"
                                      ELSE "ERROR: ValueError"
                       /\ ubSlept' = ubSlept + FIRST_SLEEP
                       /\ ubRequests' = ubRequests
                  ELSE /\ ubPc' = "retrying" /\ ubResult' = ubResult
                       /\ ubSlept' = ubSlept + FIRST_SLEEP + sleep_uncapped(res.waiting).slept
                       /\ ubRequests' = ubRequests + 1
             ELSE IF res.statusCode = LIMITED
             THEN /\ ubPc' = "returned"
                  /\ ubResult' = IF res.complete THEN "ERROR: Uptobox is being limited"
                                 ELSE "ERROR: KeyError"
                  /\ UNCHANGED <<ubSlept, ubRequests>>
             ELSE /\ ubPc' = "returned"
                  /\ ubResult' = IF res.complete THEN "ERROR: message" ELSE "ERROR: KeyError"
                  /\ UNCHANGED <<ubSlept, ubRequests>>
    /\ UNCHANGED notUptobox

\* the answer to the retry arrives: its link is returned whatever its statusCode
SecondAnswer ==
    /\ ubPc = "retrying"
    /\ \E outcome \in {"dlLink", "ERROR: KeyError", "ERROR: ConnectionError"} : ubResult' = outcome
    /\ ubPc' = "returned"
    /\ UNCHANGED <<ubFirst, ubSlept, ubRequests, notUptobox>>

InitUptobox ==
    /\ truelinkAvailable = TRUE
    /\ concurrentLimit = 1
    /\ handler = "batch"
    /\ teraCookie = FALSE
    /\ SingleIdle
    /\ BatchIdle
    /\ TeraboxIdle
    /\ LinksIdle
    /\ BypassIdle
    /\ StreamIdle
    /\ EndpointIdle
    /\ SharerpwIdle
    /\ DomainsIdle
    /\ WalkIdle
    /\ AppTeraboxIdle
    /\ UptoboxIdle

NextUptobox == UptoboxCalled \/ FirstAnswer \/ SecondAnswer

SpecUptobox == InitUptobox /\ [][NextUptobox]_vars

\* C27 (as claimed): the time slept before the retry has a maximum that is
\* the same whatever wait the upstream names; in particular the scraper does
\* not sleep as long as the longest wait the upstream may name.
C27_SleepHasFixedMaximum ==
    ubPc \in {"retrying", "returned"} => ubSlept < MaxWaiting

\* what the scraper does: it sleeps one second and then all of the wait named
C27_SleepsAsLongAsAsked ==
    (ubPc = "retrying" /\ ubFirst.kind = "json")
        => ubSlept = FIRST_SLEEP + ubFirst.waiting.n

\* the retry is made once only
C27_SingleRetry == ubRequests <= 2

(***************************************************************************)
(* resolve_single without the TrueLink library                             *)
(***************************************************************************)
\* C29 (as claimed): without TrueLink, a call on a url that FallbackResolver
\* supports runs FallbackResolver.resolve and, the HEAD request having
\* succeeded, returns status success with the mapping resolve built.
C29_FallbackResolves ==
    (rsPc = "returned" /\ ~truelinkAvailable /\ isSupportedResult = "true")
        => (rsResponse.status = "success" /\ rsResponse.type = "dict")

\* what the call returns instead
C29_FallbackAlwaysError ==
    (rsPc = "returned" /\ ~truelinkAvailable /\ isSupportedResult = "true")
        => (rsResponse.status = "error" /\ resolveCalls = 1)

(***************************************************************************)
(* endpoints/dllink.py: sharerpw_scraper followed through its statements,  *)
(* and the answer of GET /sharerpw. class Config of config.py carries no   *)
(* credential (spCreds = "absent"); the function is also run against a     *)
(* Config that carries them, empty or set, as dllink.py expects.           *)
(***************************************************************************)
STATUS_OK == 0
STATUS_MESSAGE == 2
STATUS_OTHER == 1
\* what the POST ends with: no JSON body, a body without the members read, or a status
PostAnswers ==
    {[kind |-> "neterror", status |-> STATUS_OTHER], [kind |-> "nokeys", status |-> STATUS_OK]}
    \cup {[kind |-> "json", status |-> n] : n \in {STATUS_OK, STATUS_MESSAGE, STATUS_OTHER}}
Pages == {"neterror", "notoken", "page"}
ExcKeyError == <<"K","e","y","E","r","r","o","r">>

Ended(kind, text) == [kind |-> kind, text |-> text]
\* a function that runs off its last statement returns None
ReturnsNone == Ended("none", <<>>)

\* parse_data is formatted from the 3rd, 9th and 12th cell of the table
page_read(page) == page.rows

\* `if len(ddl_btn) and not force: return await sharerpw_scraper(url, force=True)`
calls_itself(button, force) == button /\ ~force

\* what the statements after the POST end with, when they end the call
after_post(res, page, force) ==
    IF res.kind = "neterror" THEN Ended("ddl", ExcConnectionError)
    ELSE IF ~page_read(page) THEN Ended("raise", ExcIndexError)
    ELSE IF res.kind = "nokeys" THEN Ended("raise", ExcKeyError)
    ELSE IF res.status \in {STATUS_OK, STATUS_MESSAGE} THEN Ended("str", SampleText)
    ELSE ReturnsNone

\* sharerpw_endpoint: the scraper's result goes into "data" of a success
\* answer whatever it is; DDLException answers 400, any other exception 500
sharerpw_http(outcome) ==
    IF outcome.kind \in {"str", "none"} THEN HTTP_200
    ELSE IF outcome.kind = "ddl" THEN HTTP_400 ELSE HTTP_500

\* GET /sharerpw?url=...&force=...: the scraper is entered and reads the credentials
SharerpwRequest ==
    /\ spPc = "idle"
    /\ \E force \in BOOLEAN : spForce' = force
    /\ spDepth' = 1
    /\ IF spCreds = "absent"
       THEN spPc' = "ended" /\ spOutcome' = Ended("raise", AttributeError(XSRF_TOKEN))
       ELSE IF spCreds = "empty"
       THEN spPc' = "ended" /\ spOutcome' = Ended("ddl", MsgSharerNotProvided)
       ELSE spPc' = "getting" /\ spOutcome' = spOutcome
    /\ UNCHANGED <<spCreds, spPage, spHttp, spSuccess, notSharerpw>>

\* the page arrives and the table, the button and the token are looked up
PageArrives ==
    /\ spPc = "getting"
    /\ \E page \in Pages, button \in BOOLEAN, rows \in BOOLEAN :
          /\ spPage' = [button |-> button, rows |-> rows]
          /\ IF page = "neterror"
             THEN spPc' = "ended" /\ spOutcome' = Ended("raise", ExcConnectionError)
             ELSE IF page = "notoken"
             THEN spPc' = "ended" /\ spOutcome' = Ended("raise", ExcIndexError)
             ELSE spPc' = "posting" /\ spOutcome' = spOutcome
    /\ UNCHANGED <<spCreds, spForce, spDepth, spHttp, spSuccess, notSharerpw>>

\* the POST to url + "/dl" ends and the call runs to its end, or calls itself with force
PostArrives ==
    /\ spPc = "posting"
    /\ \E res \in PostAnswers :
          IF res.kind = "json" /\ res.status = STATUS_OTHER /\ page_read(spPage) /\ calls_itself(spPage.button, spForce)
          THEN /\ spPc' = "getting"
               /\ spForce' = TRUE
               /\ spDepth' = spDepth + 1
               /\ spOutcome' = spOutcome
          ELSE /\ spPc' = "ended"
               /\ spOutcome' = after_post(res, spPage, spForce)
               /\ UNCHANGED <<spForce, spDepth>>
    /\ UNCHANGED <<spCreds, spPage, spHttp, spSuccess, notSharerpw>>

\* sharerpw_endpoint answers
SharerpwAnswers ==
    /\ spPc = "ended"
    /\ spPc' = "answered"
    /\ spHttp' = sharerpw_http(spOutcome)
    /\ spSuccess' = (spOutcome.kind \in {"str", "none"})
    /\ UNCHANGED <<spCreds, spForce, spPage, spDepth, spOutcome, notSharerpw>>

InitSharerpw ==
    /\ truelinkAvailable = TRUE
    /\ concurrentLimit = 1
    /\ handler = "batch"
    /\ teraCookie = FALSE
    /\ SingleIdle
    /\ BatchIdle
    /\ TeraboxIdle
    /\ LinksIdle
    /\ BypassIdle
    /\ StreamIdle
    /\ EndpointIdle
    /\ DomainsIdle
    /\ WalkIdle
    /\ AppTeraboxIdle
    /\ UptoboxIdle
    /\ spPc = "idle" /\ spForce = FALSE /\ spPage = NoPage /\ spDepth = 0
    /\ spOutcome = NoOutcome /\ spHttp = 0 /\ spSuccess = FALSE
    /\ spCreds \in {"absent", "empty", "set"}

NextSharerpw == SharerpwRequest \/ PageArrives \/ PostArrives \/ SharerpwAnswers

SpecSharerpw == InitSharerpw /\ [][NextSharerpw]_vars

C30_AbsentCredentialsRaise ==
    (spPc = "answered" /\ spCreds = "absent")
        => (spOutcome = Ended("raise", AttributeError(XSRF_TOKEN)) /\ spHttp = HTTP_500)

\* success answered with nothing in "data"
C30_SuccessWithNone ==
    /\ spPc = "answered"
    /\ spHttp = HTTP_200
    /\ spSuccess
    /\ spOutcome = ReturnsNone

\* the scraper calls itself at most once
C30_AtMostTwoCalls == spDepth <= 2

============================================================================
